---- MODULE Spec2Model ----
(***************************************************************************)
(* Easy-Draw canvas state engine: the grid model (canvasModel.ts), the     *)
(* pure action layer (canvasActions.ts), the snapshot history              *)
(* (undoRedo.ts) and the Zustand store (useCanvasStore.ts).                *)
(*                                                                         *)
(* Two specifications share the variables:                                 *)
(*   Spec      the store, driven by its commands from its initial state;   *)
(*   SpecPure  the pure functions of the action layer and of the history   *)
(*             engine, applied to canvases and histories built by          *)
(*             createCanvas and createHistory from small arguments;        *)
(*   SpecMenu  the store again, driven by its colour commands only, over   *)
(*             runs long enough to walk round the whole palette;           *)
(*   SpecExport  the canonical JSON export (export/toJSON.ts) of canvases  *)
(*             painted cell by cell in any order;                          *)
(*   SpecStorage  saveCanvas and loadCanvas (storage/canvasStorage.ts) on  *)
(*             such canvases;                                              *)
(*   SpecLoad  loadCanvas when AsyncStorage already holds a record that    *)
(*             saveCanvas did not write.                                   *)
(***************************************************************************)
EXTENDS Integers, Sequences, FiniteSets, TLC

VARIABLES
    canvas,          \* CanvasState {config, focus, cells}
    history,         \* HistoryState {undoStack, redoStack, maxHistorySize}
    selectedColor,   \* store.selectedColor
    isColorMenuOpen, \* store.isColorMenuOpen
    colorMenuIndex,  \* store.colorMenuIndex (0-based)
    previousColor,   \* store.previousColor
    focusPosition,   \* store.focusPosition (derived)
    canUndo,         \* store.canUndo (derived)
    canRedo,         \* store.canRedo (derived)
    op,              \* the last command or function applied, with its argument
    result,          \* what it returned
    steps,           \* number of commands applied so far
    maxSizeArg,      \* the argument createHistory was given
    undoRun,         \* history variable: paints then undos since the undo stack was empty
    redoTrack,       \* history variable: undo, then a new destructive command, then redo
    pushLog,         \* history variable: snapshots handed to pushUndo, then the undos
    menuTrack,       \* history variable: the colour-menu session in progress
    storage,         \* AsyncStorage: Map from keys to JSON documents
    savedFrom,       \* history variable: the canvas each id was saved from
    foreign,         \* history variable: the record AsyncStorage held at start
    gesture,         \* the gesture layer: its refs, the touch in progress, its last event
    heap,            \* the objects allocated so far, when references are modelled
    cleared,         \* history variable: the canvas a clearCanvas was issued on
    budget           \* number of commands a behaviour may apply

vars == <<canvas, history, selectedColor, isColorMenuOpen, colorMenuIndex,
          previousColor, focusPosition, canUndo, canRedo, op, result,
          steps, maxSizeArg, undoRun, redoTrack, pushLog, menuTrack, storage,
          savedFrom, foreign, gesture, heap, cleared, budget>>

storeVars == <<selectedColor, isColorMenuOpen, colorMenuIndex, previousColor,
               focusPosition, canUndo, canRedo>>

(***************************************************************************)
(* Bounds of the model                                                     *)
(***************************************************************************)
MaxSteps == 4          \* commands issued to the store in one behaviour
MaxCalls == 4          \* pure-function applications in one behaviour
MaxMenuSteps == 13     \* colour commands issued to the store in one behaviour
MaxExportCalls == 6    \* function applications in one behaviour of SpecExport
MaxLoadCalls == 2      \* function applications in one behaviour of SpecLoad
MaxLineDim == 3        \* width and height of the canvases that are described
MaxPainted == 5        \* painted cells of a described canvas of one colour
MaxMixed == 3          \* painted cells of a described canvas of several colours
MaxTranslation == 2    \* largest |translationX|, |translationY| of a pan
MaxGestures == 3       \* gestures handled in one behaviour of SpecHook
MaxTouches == 4        \* touch events and timers handled in one behaviour of SpecScreen
MaxCreateSteps == 2    \* commands and applications in one behaviour of SpecCreate
MaxStorageCalls == 4   \* function applications in one behaviour of SpecStorage
MaxDim == 2            \* largest width/height given to createCanvas / initializeCanvas
MaxHistoryArg == 2     \* largest argument given to createHistory
MaxTime == 1           \* largest value Date.now() returns

(***************************************************************************)
(* Program constants                                                       *)
(***************************************************************************)
DEFAULT_MAX_HISTORY_SIZE == 50
DEFAULT_CANVAS_WIDTH == 8
DEFAULT_CANVAS_HEIGHT == 8
DEFAULT_COLOR == "#000000"

AVAILABLE_COLORS ==
    << "#000000", "#FFFFFF", "#FF0000", "#00FF00", "#0000FF", "#FFFF00",
       "#FF00FF", "#00FFFF", "#FFA500", "#800080", "#FFC0CB", "#A52A2A" >>

Direction == {"up", "down", "left", "right"}

(***************************************************************************)
(* Inputs                                                                  *)
(***************************************************************************)
\* colour strings handed to paintCell and to setSelectedColor: palette
\* entries, a hex triplet, a named colour in mixed case, and strings the
\* validator rejects
PureColorInputs == {"#FF0000", "Red", "#12"}
StoreColorInputs == {"#0f0", "magenta", "#A52A2A"}

(***************************************************************************)
(* Strings                                                                 *)
(***************************************************************************)
CharAt(s, i) == SubSeq(s, i, i)

UpperLetters == "ABCDEFGHIJKLMNOPQRSTUVWXYZ"
LowerLetters == "abcdefghijklmnopqrstuvwxyz"

LowerChar(ch) ==
    IF \E i \in 1..26 : CharAt(UpperLetters, i) = ch
    THEN CharAt(LowerLetters, CHOOSE i \in 1..26 : CharAt(UpperLetters, i) = ch)
    ELSE ch

RECURSIVE toLowerCase(_)
toLowerCase(s) ==
    IF Len(s) = 0 THEN ""
    ELSE LowerChar(CharAt(s, 1)) \o toLowerCase(SubSeq(s, 2, Len(s)))

UpperChar(ch) ==
    IF \E i \in 1..26 : CharAt(LowerLetters, i) = ch
    THEN CharAt(UpperLetters, CHOOSE i \in 1..26 : CharAt(LowerLetters, i) = ch)
    ELSE ch

RECURSIVE toUpperCase(_)
toUpperCase(s) ==
    IF Len(s) = 0 THEN ""
    ELSE UpperChar(CharAt(s, 1)) \o toUpperCase(SubSeq(s, 2, Len(s)))

HexDigits == {"0", "1", "2", "3", "4", "5", "6", "7", "8", "9",
              "A", "B", "C", "D", "E", "F", "a", "b", "c", "d", "e", "f"}

\* /^#([0-9A-Fa-f]{3}|[0-9A-Fa-f]{6})$/
hexPattern(s) ==
    /\ Len(s) \in {4, 7}
    /\ CharAt(s, 1) = "#"
    /\ \A i \in 2..Len(s) : CharAt(s, i) \in HexDigits

namedColors == {"black", "white", "red", "green", "blue", "yellow", "orange",
                "purple", "pink", "brown", "gray", "grey"}

isValidColor(color) ==
    IF color = "" THEN FALSE
    ELSE IF hexPattern(color) THEN TRUE
    ELSE toLowerCase(color) \in namedColors

(***************************************************************************)
(* Map<string, Cell>: a JavaScript Map keeps its entries in insertion      *)
(* order, so a map is the sequence of its [key, value] entries.            *)
(***************************************************************************)
EmptyMap == << >>

MapKeys(m) == {m[i].key : i \in 1..Len(m)}
MapHas(m, k) == k \in MapKeys(m)
MapIndex(m, k) == CHOOSE i \in 1..Len(m) : m[i].key = k
MapGet(m, k) == m[MapIndex(m, k)].value

\* Map.prototype.set: an existing key keeps its place, a new key goes last
MapSet(m, k, v) ==
    IF MapHas(m, k)
    THEN [m EXCEPT ![MapIndex(m, k)] = [key |-> k, value |-> v]]
    ELSE Append(m, [key |-> k, value |-> v])

\* Map.prototype.delete
MapDelete(m, k) ==
    IF MapHas(m, k)
    THEN SubSeq(m, 1, MapIndex(m, k) - 1) \o SubSeq(m, MapIndex(m, k) + 1, Len(m))
    ELSE m

MapValues(m) == [i \in 1..Len(m) |-> m[i].value]

(***************************************************************************)
(* canvasModel.ts                                                          *)
(***************************************************************************)
Position(r, c) == [row |-> r, col |-> c]

\* throws for non-positive dimensions; every dimension of this model is an
\* integer, so the Number.isInteger test never rejects
\* a number is an integer, or a fraction lying strictly between the integer
\* `above` and the next one
Fraction(n) == [above |-> n]

\* Number.isInteger(x): a fraction is a record, and prints as one
isInteger(x) == SubSeq(ToString(x), 1, 1) # "["

\* x <= 0
notPositive(x) == IF isInteger(x) THEN x <= 0 ELSE x.above < 0

\* the message of the Error createCanvas throws, or "" when it throws none
createCanvasError(config) ==
    IF notPositive(config.width) \/ notPositive(config.height)
    THEN "Canvas dimensions must be positive"
    ELSE IF ~isInteger(config.width) \/ ~isInteger(config.height)
    THEN "Canvas dimensions must be integers"
    ELSE ""

\* variant: a fraction is let through
createCanvasThrowsNotPositive(config) ==
    notPositive(config.width) \/ notPositive(config.height)

createCanvasThrows(config) ==
    createCanvasError(config) # ""

createCanvas(config) ==
    [config |-> config, focus |-> Position(0, 0), cells |-> EmptyMap]

getCellKey(position) == ToString(position.row) \o "," \o ToString(position.col)

\* variant: the upper bounds are inclusive
isValidPositionInclusive(position, config) ==
    /\ position.row >= 0
    /\ position.row <= config.height
    /\ position.col >= 0
    /\ position.col <= config.width

isValidPosition(position, config) ==
    /\ position.row >= 0
    /\ position.row < config.height
    /\ position.col >= 0
    /\ position.col < config.width

clearAllCells(c) == [c EXCEPT !.cells = EmptyMap]

\* {...cell}
copyCell(cell) == [row |-> cell.row, col |-> cell.col, color |-> cell.color]

\* cells.forEach((cell, key) => cloned.set(key, {...cell}))
RECURSIVE cloneCellsMap(_)
cloneCellsMap(cells) ==
    IF Len(cells) = 0 THEN EmptyMap
    ELSE MapSet(cloneCellsMap(SubSeq(cells, 1, Len(cells) - 1)),
                cells[Len(cells)].key, copyCell(cells[Len(cells)].value))

(***************************************************************************)
(* canvasActions.ts: (canvas, args) -> {canvas, result}                    *)
(***************************************************************************)
PosText(p) == "(" \o ToString(p.row) \o ", " \o ToString(p.col) \o ")"

\* variant: the colour is not validated
paintCellUnchecked(c, color) ==
    LET cell == [row |-> c.focus.row, col |-> c.focus.col, color |-> color]
    IN  [canvas |-> [c EXCEPT !.cells = MapSet(c.cells, getCellKey(c.focus), cell)],
         result |-> [success |-> TRUE,
                     message |-> "Painted cell at " \o PosText(c.focus)
                                 \o " with " \o color,
                     position |-> c.focus,
                     color |-> color]]

\* variant: a cell already painted keeps its colour (first write wins)
paintCellKeepExisting(c, color) ==
    IF ~isValidColor(color)
    THEN [canvas |-> c,
          result |-> [success |-> FALSE, message |-> "Invalid color: " \o color]]
    ELSE LET cell == [row |-> c.focus.row, col |-> c.focus.col, color |-> color]
             key == getCellKey(c.focus)
         IN  [canvas |-> IF MapHas(c.cells, key) THEN c
                         ELSE [c EXCEPT !.cells = MapSet(c.cells, key, cell)],
              result |-> [success |-> TRUE,
                          message |-> "Painted cell at " \o PosText(c.focus)
                                      \o " with " \o color,
                          position |-> c.focus,
                          color |-> color]]

\* variant: the cell is appended to the cells instead of set under its key
paintCellAppend(c, color) ==
    IF ~isValidColor(color)
    THEN [canvas |-> c,
          result |-> [success |-> FALSE, message |-> "Invalid color: " \o color]]
    ELSE LET cell == [row |-> c.focus.row, col |-> c.focus.col, color |-> color]
             key == getCellKey(c.focus)
         IN  [canvas |-> [c EXCEPT !.cells =
                             Append(c.cells, [key |-> key, value |-> cell])],
              result |-> [success |-> TRUE,
                          message |-> "Painted cell at " \o PosText(c.focus)
                                      \o " with " \o color,
                          position |-> c.focus,
                          color |-> color]]

paintCell(c, color) ==
    IF ~isValidColor(color)
    THEN [canvas |-> c,
          result |-> [success |-> FALSE, message |-> "Invalid color: " \o color]]
    ELSE LET cell == [row |-> c.focus.row, col |-> c.focus.col, color |-> color]
             key == getCellKey(c.focus)
         IN  [canvas |-> [c EXCEPT !.cells = MapSet(c.cells, key, cell)],
              result |-> [success |-> TRUE,
                          message |-> "Painted cell at " \o PosText(c.focus)
                                      \o " with " \o color,
                          position |-> c.focus,
                          color |-> color]]

\* variant: erasing drops every cell, not only the focused one
eraseCellClearsAll(c) ==
    LET key == getCellKey(c.focus)
    IN  IF ~MapHas(c.cells, key)
        THEN [canvas |-> c,
              result |-> [success |-> FALSE,
                          message |-> "No cell to erase at " \o PosText(c.focus),
                          position |-> c.focus]]
        ELSE [canvas |-> [c EXCEPT !.cells = EmptyMap],
              result |-> [success |-> TRUE,
                          message |-> "Erased cell at " \o PosText(c.focus),
                          position |-> c.focus]]

eraseCell(c) ==
    LET key == getCellKey(c.focus)
    IN  IF ~MapHas(c.cells, key)
        THEN [canvas |-> c,
              result |-> [success |-> FALSE,
                          message |-> "No cell to erase at " \o PosText(c.focus),
                          position |-> c.focus]]
        ELSE [canvas |-> [c EXCEPT !.cells = MapDelete(c.cells, key)],
              result |-> [success |-> TRUE,
                          message |-> "Erased cell at " \o PosText(c.focus),
                          position |-> c.focus]]

\* variant: up and down exchanged
calculateNewPositionFlipped(current, direction) ==
    CASE direction = "up"    -> Position(current.row + 1, current.col)
      [] direction = "down"  -> Position(current.row - 1, current.col)
      [] direction = "left"  -> Position(current.row, current.col - 1)
      [] direction = "right" -> Position(current.row, current.col + 1)
      [] OTHER               -> current

calculateNewPosition(current, direction) ==
    CASE direction = "up"    -> Position(current.row - 1, current.col)
      [] direction = "down"  -> Position(current.row + 1, current.col)
      [] direction = "left"  -> Position(current.row, current.col - 1)
      [] direction = "right" -> Position(current.row, current.col + 1)
      [] OTHER               -> current

moveFocus(c, direction) ==
    LET newPosition == calculateNewPosition(c.focus, direction)
    IN  IF ~isValidPosition(newPosition, c.config)
        THEN [canvas |-> c,
              result |-> [success |-> FALSE,
                          message |-> "Cannot move " \o direction
                                      \o " - boundary reached",
                          position |-> c.focus]]
        ELSE [canvas |-> [c EXCEPT !.focus = newPosition],
              result |-> [success |-> TRUE,
                          message |-> "Moved " \o direction \o " to "
                                      \o PosText(newPosition),
                          position |-> newPosition]]

setFocus(c, position) ==
    IF ~isValidPosition(position, c.config)
    THEN [canvas |-> c,
          result |-> [success |-> FALSE,
                      message |-> "Invalid position: " \o PosText(position),
                      position |-> c.focus]]
    ELSE [canvas |-> [c EXCEPT !.focus = position],
          result |-> [success |-> TRUE,
                      message |-> "Focus set to " \o PosText(position),
                      position |-> position]]

moveFocusToHome(c) == setFocus(c, Position(0, 0))

moveFocusToEnd(c) == setFocus(c, Position(c.config.height - 1, c.config.width - 1))

(***************************************************************************)
(* undoRedo.ts                                                             *)
(***************************************************************************)
MathMax(a, b) == IF a >= b THEN a ELSE b

createHistory(maxHistorySize) ==
    [undoStack |-> << >>, redoStack |-> << >>,
     maxHistorySize |-> MathMax(1, maxHistorySize)]

\* t is the reading of Date.now()
createSnapshot(c, t) ==
    [focus |-> c.focus, cells |-> cloneCellsMap(c.cells), timestamp |-> t]

\* variant: the cells are restored, the focus is not
restoreFromSnapshotKeepFocus(c, snapshot) ==
    [c EXCEPT !.cells = cloneCellsMap(snapshot.cells)]

restoreFromSnapshot(c, snapshot) ==
    [c EXCEPT !.focus = snapshot.focus, !.cells = cloneCellsMap(snapshot.cells)]

\* arr.slice(arr.length - n) for 0 < n < arr.length
SliceLast(arr, n) == SubSeq(arr, Len(arr) - n + 1, Len(arr))

\* arr.pop(): the array without its last element
Popped(arr) == SubSeq(arr, 1, Len(arr) - 1)

\* variant: the stack is never trimmed
pushUndoNoTrim(h, snapshot) ==
    [h EXCEPT !.undoStack = Append(h.undoStack, snapshot), !.redoStack = << >>]

\* variant: the newest snapshots are dropped instead of the oldest
pushUndoDropNewest(h, snapshot) ==
    LET newUndoStack == Append(h.undoStack, snapshot)
        trimmedUndoStack ==
            IF Len(newUndoStack) > h.maxHistorySize
            THEN SubSeq(newUndoStack, 1, h.maxHistorySize)
            ELSE newUndoStack
    IN  [h EXCEPT !.undoStack = trimmedUndoStack, !.redoStack = << >>]

\* variant: the redo stack survives a push
pushUndoKeepRedo(h, snapshot) ==
    LET newUndoStack == Append(h.undoStack, snapshot)
        trimmedUndoStack ==
            IF Len(newUndoStack) > h.maxHistorySize
            THEN SliceLast(newUndoStack, h.maxHistorySize)
            ELSE newUndoStack
    IN  [h EXCEPT !.undoStack = trimmedUndoStack]

pushUndo(h, snapshot) ==
    LET newUndoStack == Append(h.undoStack, snapshot)
        trimmedUndoStack ==
            IF Len(newUndoStack) > h.maxHistorySize
            THEN SliceLast(newUndoStack, h.maxHistorySize)
            ELSE newUndoStack
    IN  [h EXCEPT !.undoStack = trimmedUndoStack, !.redoStack = << >>]

\* variant: the current state is recorded for redo before the stack is
\* found empty
undoRecordsBeforeCheck(c, h, t) ==
    LET currentSnapshot == createSnapshot(c, t)
        newRedoStack == Append(h.redoStack, currentSnapshot)
    IN  IF Len(h.undoStack) = 0
        THEN [canvas |-> c, history |-> [h EXCEPT !.redoStack = newRedoStack],
              result |-> [success |-> FALSE, message |-> "Nothing to undo"]]
        ELSE LET previousSnapshot == h.undoStack[Len(h.undoStack)]
                 restoredCanvas == restoreFromSnapshot(c, previousSnapshot)
             IN  [canvas |-> restoredCanvas,
                  history |-> [h EXCEPT !.undoStack = Popped(h.undoStack),
                                        !.redoStack = newRedoStack],
                  result |-> [success |-> TRUE, message |-> "Undo successful",
                              position |-> restoredCanvas.focus]]

\* variant: the snapshot restored stays on the undo stack
undoWithoutPop(c, h, t) ==
    IF Len(h.undoStack) = 0
    THEN [canvas |-> c, history |-> h,
          result |-> [success |-> FALSE, message |-> "Nothing to undo"]]
    ELSE LET currentSnapshot == createSnapshot(c, t)
             previousSnapshot == h.undoStack[Len(h.undoStack)]
             restoredCanvas == restoreFromSnapshot(c, previousSnapshot)
         IN  [canvas |-> restoredCanvas,
              history |-> [h EXCEPT
                             !.redoStack = Append(h.redoStack, currentSnapshot)],
              result |-> [success |-> TRUE, message |-> "Undo successful",
                          position |-> restoredCanvas.focus]]

undo(c, h, t) ==
    IF Len(h.undoStack) = 0
    THEN [canvas |-> c, history |-> h,
          result |-> [success |-> FALSE, message |-> "Nothing to undo"]]
    ELSE LET currentSnapshot == createSnapshot(c, t)
             previousSnapshot == h.undoStack[Len(h.undoStack)]
             newUndoStack == Popped(h.undoStack)
             newRedoStack == Append(h.redoStack, currentSnapshot)
             restoredCanvas == restoreFromSnapshot(c, previousSnapshot)
         IN  [canvas |-> restoredCanvas,
              history |-> [h EXCEPT !.undoStack = newUndoStack,
                                    !.redoStack = newRedoStack],
              result |-> [success |-> TRUE, message |-> "Undo successful",
                          position |-> restoredCanvas.focus]]

\* variant: the state a redo leaves behind is not recorded for undo
redoForgetsCurrent(c, h, t) ==
    IF Len(h.redoStack) = 0
    THEN [canvas |-> c, history |-> h,
          result |-> [success |-> FALSE, message |-> "Nothing to redo"]]
    ELSE LET nextSnapshot == h.redoStack[Len(h.redoStack)]
             restoredCanvas == restoreFromSnapshot(c, nextSnapshot)
         IN  [canvas |-> restoredCanvas,
              history |-> [h EXCEPT !.redoStack = Popped(h.redoStack)],
              result |-> [success |-> TRUE, message |-> "Redo successful",
                          position |-> restoredCanvas.focus]]

redo(c, h, t) ==
    IF Len(h.redoStack) = 0
    THEN [canvas |-> c, history |-> h,
          result |-> [success |-> FALSE, message |-> "Nothing to redo"]]
    ELSE LET currentSnapshot == createSnapshot(c, t)
             nextSnapshot == h.redoStack[Len(h.redoStack)]
             newRedoStack == Popped(h.redoStack)
             newUndoStack == Append(h.undoStack, currentSnapshot)
             trimmedUndoStack ==
                 IF Len(newUndoStack) > h.maxHistorySize
                 THEN SliceLast(newUndoStack, h.maxHistorySize)
                 ELSE newUndoStack
             restoredCanvas == restoreFromSnapshot(c, nextSnapshot)
         IN  [canvas |-> restoredCanvas,
              history |-> [h EXCEPT !.undoStack = trimmedUndoStack,
                                    !.redoStack = newRedoStack],
              result |-> [success |-> TRUE, message |-> "Redo successful",
                          position |-> restoredCanvas.focus]]

historyCanUndo(h) == Len(h.undoStack) > 0

historyCanRedo(h) == Len(h.redoStack) > 0

(***************************************************************************)
(* export/toJSON.ts                                                        *)
(***************************************************************************)
EXPORT_VERSION == 1

\* { row, col, color } of a cell
cellTriple(cell) == [row |-> cell.row, col |-> cell.col, color |-> cell.color]

\* the comparator handed to Array.prototype.sort: by row, then by column
compareCells(a, b) == IF a.row # b.row THEN a.row - b.row ELSE a.col - b.col

\* Array.prototype.sort with compareCells: a stable sort, here by insertion
RECURSIVE insertCell(_, _)
insertCell(sorted, x) ==
    IF Len(sorted) = 0
    THEN <<x>>
    ELSE IF compareCells(sorted[Len(sorted)], x) <= 0
    THEN Append(sorted, x)
    ELSE Append(insertCell(Popped(sorted), x), sorted[Len(sorted)])

RECURSIVE sortCells(_)
sortCells(arr) ==
    IF Len(arr) = 0 THEN << >>
    ELSE insertCell(sortCells(Popped(arr)), arr[Len(arr)])

\* Array.from(cells.values()).map(...)
cellsToArray(cells) ==
    LET values == MapValues(cells)
    IN  [i \in 1..Len(values) |-> cellTriple(values[i])]

\* variant: the cells are exported in the order the Map holds them
canvasToJSONUnsorted(c, t) ==
    [version |-> EXPORT_VERSION,
     exportedAt |-> t,
     canvas |-> [width |-> c.config.width, height |-> c.config.height,
                 cells |-> cellsToArray(c.cells)]]

\* t is the reading of Date.now()
canvasToJSON(c, t) ==
    [version |-> EXPORT_VERSION,
     exportedAt |-> t,
     canvas |-> [width |-> c.config.width, height |-> c.config.height,
                 cells |-> sortCells(cellsToArray(c.cells))]]

(***************************************************************************)
(* toDescription.ts.  The description is the array `lines` that            *)
(* canvasToDescription joins with newlines.                                *)
(***************************************************************************)
\* a.localeCompare(b) for colour strings: "#" collates before every letter,
\* and letters compare without regard to case before case breaks the tie
collationClass(str) == IF CharAt(str, 1) = "#" THEN 0 ELSE 1

localeCompare(a, b) ==
    IF a = b THEN 0
    ELSE IF collationClass(a) # collationClass(b)
    THEN collationClass(a) - collationClass(b)
    ELSE LET i == CHOOSE i \in 1..(Len(a) + Len(b)) :
                      /\ \A j \in 1..(i - 1) : j <= Len(a) /\ j <= Len(b)
                            /\ LowerChar(CharAt(a, j)) = LowerChar(CharAt(b, j))
                      /\ \/ i > Len(a) \/ i > Len(b)
                         \/ LowerChar(CharAt(a, i)) # LowerChar(CharAt(b, i))
             rank(ch) == CHOOSE k \in 0..36 :
                            CharAt("0123456789" \o LowerLetters, k + 1) = ch
         IN  IF i > Len(a) /\ i > Len(b) THEN 0
             ELSE IF i > Len(a) THEN -1
             ELSE IF i > Len(b) THEN 1
             ELSE rank(LowerChar(CharAt(a, i))) - rank(LowerChar(CharAt(b, i)))

\* cells.forEach(...) of groupCellsByColor: Map<color, Cell[]>
RECURSIVE cellsByColor(_)
cellsByColor(values) ==
    IF Len(values) = 0 THEN EmptyMap
    ELSE LET groups == cellsByColor(Popped(values))
             cell == values[Len(values)]
             existing == IF MapHas(groups, cell.color)
                         THEN MapGet(groups, cell.color) ELSE << >>
         IN  MapSet(groups, cell.color, Append(existing, cell))

\* result.sort((a, b) => a.color.localeCompare(b.color))
RECURSIVE insertGroup(_, _)
insertGroup(sorted, g) ==
    IF Len(sorted) = 0
    THEN <<g>>
    ELSE IF localeCompare(sorted[Len(sorted)].color, g.color) <= 0
    THEN Append(sorted, g)
    ELSE Append(insertGroup(Popped(sorted), g), sorted[Len(sorted)])

RECURSIVE sortGroups(_)
sortGroups(arr) ==
    IF Len(arr) = 0 THEN << >>
    ELSE insertGroup(sortGroups(Popped(arr)), arr[Len(arr)])

groupCellsByColor(c) ==
    LET groups == cellsByColor(MapValues(c.cells))
    IN  sortGroups([i \in 1..Len(groups) |->
                       [color |-> groups[i].key,
                        cells |-> sortCells(groups[i].value)]])

\* cols.sort((a, b) => a - b)
RECURSIVE insertNumber(_, _)
insertNumber(sorted, x) ==
    IF Len(sorted) = 0
    THEN <<x>>
    ELSE IF sorted[Len(sorted)] - x <= 0
    THEN Append(sorted, x)
    ELSE Append(insertNumber(Popped(sorted), x), sorted[Len(sorted)])

RECURSIVE sortNumbers(_)
sortNumbers(arr) ==
    IF Len(arr) = 0 THEN << >>
    ELSE insertNumber(sortNumbers(Popped(arr)), arr[Len(arr)])

\* Map<row, col[]>
RECURSIVE cellsByRow(_)
cellsByRow(cells) ==
    IF Len(cells) = 0 THEN EmptyMap
    ELSE LET m == cellsByRow(Popped(cells))
             cell == cells[Len(cells)]
             cols == IF MapHas(m, cell.row) THEN MapGet(m, cell.row) ELSE << >>
         IN  MapSet(m, cell.row, Append(cols, cell.col))

\* Map<col, row[]>
RECURSIVE cellsByCol(_)
cellsByCol(cells) ==
    IF Len(cells) = 0 THEN EmptyMap
    ELSE LET m == cellsByCol(Popped(cells))
             cell == cells[Len(cells)]
             rows == IF MapHas(m, cell.col) THEN MapGet(m, cell.col) ELSE << >>
         IN  MapSet(m, cell.col, Append(rows, cell.row))

\* the loop over one sorted line from index i on, then the final check;
\* a stretch is pushed when end - start >= least
RECURSIVE scanLine(_, _, _, _, _)
scanLine(xs, i, start, end, least) ==
    LET pushed == IF end - start >= least
                  THEN <<[start |-> start, end |-> end]>> ELSE << >>
    IN  IF i > Len(xs) THEN pushed
        ELSE IF xs[i] = end + 1
        THEN scanLine(xs, i + 1, start, xs[i], least)
        ELSE pushed \o scanLine(xs, i + 1, xs[i], xs[i], least)

\* the stretches found in every line of the Map, in the order of its keys
RECURSIVE lineRuns(_, _)
lineRuns(byLine, least) ==
    IF Len(byLine) = 0 THEN << >>
    ELSE LET entry == byLine[Len(byLine)]
             xs == sortNumbers(entry.value)
             found == scanLine(xs, 2, xs[1], xs[1], least)
         IN  lineRuns(Popped(byLine), least)
                \o [k \in 1..Len(found) |->
                       [line |-> entry.key,
                        start |-> found[k].start, end |-> found[k].end]]

\* variant: two cells in a line already make a run
detectHorizontalRunsOfTwo(cells) ==
    LET found == lineRuns(cellsByRow(cells), 1)
    IN  [k \in 1..Len(found) |->
            [row |-> found[k].line,
             startCol |-> found[k].start, endCol |-> found[k].end]]

detectHorizontalRuns(cells) ==
    LET found == lineRuns(cellsByRow(cells), 2)
    IN  [k \in 1..Len(found) |->
            [row |-> found[k].line,
             startCol |-> found[k].start, endCol |-> found[k].end]]

detectVerticalRuns(cells) ==
    LET found == lineRuns(cellsByCol(cells), 2)
    IN  [k \in 1..Len(found) |->
            [col |-> found[k].line,
             startRow |-> found[k].start, endRow |-> found[k].end]]

formatColor(color) ==
    IF Len(color) > 0 /\ CharAt(color, 1) = "#"
    THEN toUpperCase(SubSeq(color, 2, Len(color)))
    ELSE color

\* the template literals of describeColorGroup
groupHeader(color, n) ==
    "Color: " \o formatColor(color) \o " (" \o ToString(n) \o " cells)"

horizontalLine(run) ==
    "    Row " \o ToString(run.row) \o ", columns " \o ToString(run.startCol)
        \o " to " \o ToString(run.endCol)
        \o " (" \o ToString(run.endCol - run.startCol + 1) \o " cells)"

verticalLine(run) ==
    "    Column " \o ToString(run.col) \o ", rows " \o ToString(run.startRow)
        \o " to " \o ToString(run.endRow)
        \o " (" \o ToString(run.endRow - run.startRow + 1) \o " cells)"

cellLine(cell) ==
    "    Row " \o ToString(cell.row) \o ", Column " \o ToString(cell.col)

describeColorGroup(group) ==
    LET hRuns == detectHorizontalRuns(group.cells)
        vRuns == detectVerticalRuns(group.cells)
    IN  <<groupHeader(group.color, Len(group.cells))>>
        \o (IF Len(hRuns) > 0
            THEN <<"  Horizontal lines:">>
                  \o [k \in 1..Len(hRuns) |-> horizontalLine(hRuns[k])]
            ELSE << >>)
        \o (IF Len(vRuns) > 0
            THEN <<"  Vertical lines:">>
                  \o [k \in 1..Len(vRuns) |-> verticalLine(vRuns[k])]
            ELSE << >>)
        \o (IF Len(hRuns) = 0 /\ Len(vRuns) = 0
            THEN <<"  Individual cells:">>
                  \o [k \in 1..Len(group.cells) |-> cellLine(group.cells[k])]
            ELSE << >>)

\* groups.forEach((group, index) => ...): a blank line between two groups
RECURSIVE groupsLines(_)
groupsLines(groups) ==
    IF Len(groups) = 0 THEN << >>
    ELSE groupsLines(Popped(groups))
            \o (IF Len(groups) > 1 THEN <<"">> ELSE << >>)
            \o describeColorGroup(groups[Len(groups)])

Rule == "=================================================="

canvasToDescription(c) ==
    LET header == <<"Canvas Description",
                    Rule,
                    "Dimensions: " \o ToString(c.config.width) \o " columns x "
                        \o ToString(c.config.height) \o " rows",
                    "Total cells: " \o ToString(c.config.width * c.config.height),
                    "Painted cells: " \o ToString(Len(c.cells)),
                    "">>
    IN  IF Len(c.cells) = 0
        THEN Append(header, "Canvas is empty - no painted cells.")
        ELSE LET groups == groupCellsByColor(c)
             IN  header \o <<"Colors used: " \o ToString(Len(groups)), "">>
                        \o groupsLines(groups)

(***************************************************************************)
(* gestureMapper.ts                                                        *)
(***************************************************************************)
SWIPE_VELOCITY_THRESHOLD == 500
SWIPE_ANGLE_TOLERANCE == 45

\* Direction | null
NoDirection == "null"

Abs(x) == IF x < 0 THEN -x ELSE x

\* Math.sqrt(velocityX ** 2 + velocityY ** 2): the square root is kept as
\* its square, which orders the same way
totalVelocitySquared(pan) ==
    pan.velocityX * pan.velocityX + pan.velocityY * pan.velocityY

\* Math.atan2(absY, absX) * (180 / Math.PI) set against 45 degrees: the sign
\* of angle - 45.  The angle is below 45 exactly when absY < absX, and
\* atan2(0, 0) is 0.
angleAgainstTolerance(absY, absX) ==
    IF absY < absX \/ (absX = 0 /\ absY = 0) THEN -1
    ELSE IF absY = absX THEN 0
    ELSE 1

\* variant: a diagonal pan counts as horizontal
detectSwipeDirectionGuessing(pan) ==
    LET absX == Abs(pan.translationX)
        absY == Abs(pan.translationY)
    IN  IF totalVelocitySquared(pan)
              < SWIPE_VELOCITY_THRESHOLD * SWIPE_VELOCITY_THRESHOLD
        THEN NoDirection
        ELSE IF absX >= absY
        THEN (IF pan.translationX > 0 THEN "right" ELSE "left")
        ELSE IF absY > absX /\ angleAgainstTolerance(absY, absX) > 0
        THEN (IF pan.translationY > 0 THEN "down" ELSE "up")
        ELSE NoDirection

detectSwipeDirection(pan) ==
    LET absX == Abs(pan.translationX)
        absY == Abs(pan.translationY)
    IN  IF totalVelocitySquared(pan)
              < SWIPE_VELOCITY_THRESHOLD * SWIPE_VELOCITY_THRESHOLD
        THEN NoDirection
        ELSE IF absX > absY /\ angleAgainstTolerance(absY, absX) < 0
        THEN (IF pan.translationX > 0 THEN "right" ELSE "left")
        ELSE IF absY > absX /\ angleAgainstTolerance(absY, absX) > 0
        THEN (IF pan.translationY > 0 THEN "down" ELSE "up")
        ELSE NoDirection

swipeToMoveIntent(direction) ==
    CASE direction = "up" -> "MOVE_UP"
      [] direction = "down" -> "MOVE_DOWN"
      [] direction = "left" -> "MOVE_LEFT"
      [] direction = "right" -> "MOVE_RIGHT"
      [] OTHER -> "UNKNOWN"

mapTapToPaint == "PAINT"
mapDoubleTapToInspect == "INSPECT"
mapLongPressToMenu == "MENU"

\* data is the pan of a PAN gesture, or NoData
NoData == [none |-> TRUE]

mapGestureToIntent(gestureType, data) ==
    CASE gestureType = "TAP" -> mapTapToPaint
      [] gestureType = "DOUBLE_TAP" -> mapDoubleTapToInspect
      [] gestureType = "LONG_PRESS" -> mapLongPressToMenu
      [] gestureType = "PAN" ->
            IF data # NoData /\ detectSwipeDirection(data) # NoDirection
            THEN swipeToMoveIntent(detectSwipeDirection(data))
            ELSE "UNKNOWN"
      [] OTHER -> "UNKNOWN"

intentToDirection(intent) ==
    CASE intent = "MOVE_UP" -> "up"
      [] intent = "MOVE_DOWN" -> "down"
      [] intent = "MOVE_LEFT" -> "left"
      [] intent = "MOVE_RIGHT" -> "right"
      [] OTHER -> NoDirection

isMovementIntent(intent) ==
    intent \in {"MOVE_UP", "MOVE_DOWN", "MOVE_LEFT", "MOVE_RIGHT"}

(***************************************************************************)
(* JSON.  A JavaScript value carries its type; a JSON document is the same *)
(* tree with every number written out in decimal.                          *)
(***************************************************************************)
JsUndefined == [type |-> "undefined"]
JsNumber(n) == [type |-> "number", value |-> n]
JsString(str) == [type |-> "string", value |-> str]
JsArray(items) == [type |-> "array", items |-> items]
JsObject(fields) == [type |-> "object", fields |-> fields]

\* typeof v
typeOf(v) == IF v.type \in {"object", "array", "null"} THEN "object" ELSE v.type

\* v.name: undefined when v has no such property
property(v, name) ==
    IF v.type = "object"
    THEN IF name \in DOMAIN v.fields THEN v.fields[name] ELSE JsUndefined
    ELSE JsUndefined

\* !v is false
truthy(v) ==
    CASE v.type \in {"undefined", "null"} -> FALSE
      [] v.type = "number" -> v.value # 0
      [] v.type = "string" -> v.value # ""
      [] OTHER -> TRUE

DecimalDigits == "0123456789"

\* the number a run of decimal digits denotes
RECURSIVE digitsValue(_)
digitsValue(text) ==
    IF Len(text) = 0 THEN 0
    ELSE LET last == CharAt(text, Len(text))
             d == CHOOSE k \in 0..9 : CharAt(DecimalDigits, k + 1) = last
         IN  10 * digitsValue(SubSeq(text, 1, Len(text) - 1)) + d

\* the integer a JSON number denotes
numberValue(text) ==
    IF CharAt(text, 1) = "-"
    THEN 0 - digitsValue(SubSeq(text, 2, Len(text)))
    ELSE digitsValue(text)

RECURSIVE JSONstringify(_)
JSONstringify(v) ==
    CASE v.type = "number" -> [type |-> "number", text |-> ToString(v.value)]
      [] v.type = "array" ->
            [type |-> "array",
             items |-> [i \in 1..Len(v.items) |-> JSONstringify(v.items[i])]]
      [] v.type = "object" ->
            [type |-> "object",
             fields |-> [k \in DOMAIN v.fields |-> JSONstringify(v.fields[k])]]
      [] OTHER -> v

\* a stored text that is not JSON
Malformed == [type |-> "malformed"]

\* JSON.parse throws a SyntaxError
JSONparseThrows(json) == json.type = "malformed"

RECURSIVE JSONparse(_)
JSONparse(json) ==
    CASE json.type = "number" -> JsNumber(numberValue(json.text))
      [] json.type = "array" ->
            JsArray([i \in 1..Len(json.items) |-> JSONparse(json.items[i])])
      [] json.type = "object" ->
            JsObject([k \in DOMAIN json.fields |-> JSONparse(json.fields[k])])
      [] OTHER -> json

(***************************************************************************)
(* storage/canvasStorage.ts.  AsyncStorage is a Map from keys to JSON      *)
(* documents.                                                              *)
(***************************************************************************)
CANVAS_STORAGE_PREFIX == "@easy-draw:canvas:"
CANVAS_LIST_KEY == "@easy-draw:canvas-list"
STORAGE_VERSION == 1

\* t is the reading of Date.now(); an empty id stands for an omitted one
canvasToSaved(c, name, id, t) ==
    LET cellsArray == sortCells(cellsToArray(c.cells))
    IN  JsObject(
          [id |-> JsString(IF id # "" THEN id ELSE ToString(t)),
           name |-> JsString(name),
           version |-> JsNumber(STORAGE_VERSION),
           timestamp |-> JsNumber(t),
           canvas |-> JsObject(
             [width |-> JsNumber(c.config.width),
              height |-> JsNumber(c.config.height),
              focus |-> JsObject([row |-> JsNumber(c.focus.row),
                                  col |-> JsNumber(c.focus.col)]),
              cells |-> JsArray(
                [i \in 1..Len(cellsArray) |->
                    JsObject([row |-> JsNumber(cellsArray[i].row),
                              col |-> JsNumber(cellsArray[i].col),
                              color |-> JsString(cellsArray[i].color)])])])])

\* saved.canvas.cells.forEach(cell => canvas.cells.set(`${row},${col}`, ...))
RECURSIVE setSavedCells(_, _)
setSavedCells(cells, items) ==
    IF Len(items) = 0 THEN cells
    ELSE LET cell == items[1].fields
             row == cell.row.value
             col == cell.col.value
             key == ToString(row) \o "," \o ToString(col)
         IN  setSavedCells(
                 MapSet(cells, key,
                        [row |-> row, col |-> col, color |-> cell.color.value]),
                 SubSeq(items, 2, Len(items)))

savedConfig(saved) ==
    [width |-> saved.fields.canvas.fields.width.value,
     height |-> saved.fields.canvas.fields.height.value]

\* variant: rows and columns change places on the way back
savedToCanvasTransposed(saved) ==
    LET c == saved.fields.canvas.fields
        loaded == setSavedCells(EmptyMap, c.cells.items)
    IN  [createCanvas(savedConfig(saved)) EXCEPT
           !.focus = Position(c.focus.fields.row.value, c.focus.fields.col.value),
           !.cells = [i \in 1..Len(loaded) |->
                        [key |-> getCellKey(Position(loaded[i].value.col,
                                                     loaded[i].value.row)),
                         value |-> [row |-> loaded[i].value.col,
                                    col |-> loaded[i].value.row,
                                    color |-> loaded[i].value.color]]]]

\* for a saved canvas whose dimensions createCanvas accepts
savedToCanvas(saved) ==
    LET c == saved.fields.canvas.fields
    IN  [createCanvas(savedConfig(saved)) EXCEPT
           !.focus = Position(c.focus.fields.row.value, c.focus.fields.col.value),
           !.cells = setSavedCells(EmptyMap, c.cells.items)]

validSavedCell(cell) ==
    /\ truthy(cell) /\ typeOf(cell) = "object"
    /\ typeOf(property(cell, "row")) = "number"
    /\ typeOf(property(cell, "col")) = "number"
    /\ typeOf(property(cell, "color")) = "string"

validateSavedCanvas(data) ==
    /\ truthy(data) /\ typeOf(data) = "object"
    /\ typeOf(property(data, "id")) = "string"
    /\ typeOf(property(data, "name")) = "string"
    /\ typeOf(property(data, "version")) = "number"
    /\ typeOf(property(data, "timestamp")) = "number"
    /\ truthy(property(data, "canvas"))
    /\ typeOf(property(data, "canvas")) = "object"
    /\ LET c == property(data, "canvas")
       IN  /\ typeOf(property(c, "width")) = "number"
           /\ property(c, "width").value > 0
           /\ typeOf(property(c, "height")) = "number"
           /\ property(c, "height").value > 0
           /\ truthy(property(c, "focus"))
           /\ typeOf(property(c, "focus")) = "object"
           /\ typeOf(property(property(c, "focus"), "row")) = "number"
           /\ typeOf(property(property(c, "focus"), "col")) = "number"
           /\ property(c, "cells").type = "array"
           /\ \A i \in 1..Len(property(c, "cells").items) :
                  validSavedCell(property(c, "cells").items[i])

\* the parsed list, [] when nothing is stored under the list key
getCanvasList(store) ==
    IF MapHas(store, CANVAS_LIST_KEY)
    THEN JSONparse(MapGet(store, CANVAS_LIST_KEY)).items
    ELSE << >>

\* saveCanvas(canvas, name): an empty name stands for an omitted one; t1 is
\* the reading of the clock that names and identifies the canvas, t2 the
\* reading canvasToSaved stamps it with.  Returns the storage it leaves.
saveCanvas(store, c, name, t1, t2) ==
    LET canvasName == IF name # "" THEN name ELSE "Untitled " \o ToString(t1)
        id == ToString(t1)
        saved == canvasToSaved(c, canvasName, id, t2)
        withCanvas == MapSet(store, CANVAS_STORAGE_PREFIX \o id,
                             JSONstringify(saved))
        item == JsObject(
                  [id |-> JsString(id),
                   name |-> JsString(canvasName),
                   timestamp |-> saved.fields.timestamp,
                   cellCount |->
                       JsNumber(Len(saved.fields.canvas.fields.cells.items))])
        list == <<item>> \o getCanvasList(withCanvas)
    IN  [storage |-> MapSet(withCanvas, CANVAS_LIST_KEY,
                            JSONstringify(JsArray(list))),
         result |-> [success |-> TRUE, message |-> "Canvas saved successfully"]]

\* variant: the version of the record is not looked at
loadCanvasAnyVersion(store, id) ==
    LET key == CANVAS_STORAGE_PREFIX \o id
    IN  IF ~MapHas(store, key)
        THEN [success |-> FALSE, message |-> "Canvas not found"]
        ELSE IF JSONparseThrows(MapGet(store, key))
        THEN [success |-> FALSE,
              message |-> "Failed to load canvas: SyntaxError"]
        ELSE LET data == JSONparse(MapGet(store, key))
             IN  IF ~validateSavedCanvas(data)
                 THEN [success |-> FALSE, message |-> "Invalid canvas data"]
                 ELSE [success |-> TRUE,
                       message |-> "Canvas loaded successfully",
                       canvas |-> savedToCanvas(data)]

loadCanvas(store, id) ==
    LET key == CANVAS_STORAGE_PREFIX \o id
    IN  IF ~MapHas(store, key)
        THEN [success |-> FALSE, message |-> "Canvas not found"]
        ELSE IF JSONparseThrows(MapGet(store, key))
        THEN [success |-> FALSE,
              message |-> "Failed to load canvas: SyntaxError"]
        ELSE LET data == JSONparse(MapGet(store, key))
             IN  IF ~validateSavedCanvas(data)
                 THEN [success |-> FALSE, message |-> "Invalid canvas data"]
                 ELSE IF data.fields.version.value > STORAGE_VERSION
                 THEN [success |-> FALSE,
                       message |-> "Canvas saved with newer version"]
                 ELSE IF createCanvasThrows(savedConfig(data))
                 THEN [success |-> FALSE,
                       message |-> "Failed to load canvas: Error: "
                                   \o "Canvas dimensions must be positive"]
                 ELSE [success |-> TRUE,
                       message |-> "Canvas loaded successfully",
                       canvas |-> savedToCanvas(data)]

(***************************************************************************)
(* History variables                                                       *)
(***************************************************************************)
NoRun == [active |-> FALSE]

\* Commands that move the focus or pick a colour; they may come between the
\* paints of a run.
NeutralCommands == {"moveFocusDirection", "setFocusPosition", "moveFocusHome",
                    "setSelectedColor"}

\* undoRun after the command `name` with outcome `res`, issued in the
\* current state: a run starts with a successful paint on an empty undo
\* stack, counts the successful paints (k), then the undos (j).
NextUndoRun(name, res) ==
    CASE name = "paintFocusedCell" /\ res.success ->
            IF undoRun.active /\ undoRun.j = 0
            THEN [undoRun EXCEPT !.k = @ + 1]
            ELSE IF Len(history.undoStack) = 0
            THEN [active |-> TRUE, base |-> canvas, k |-> 1, j |-> 0]
            ELSE NoRun
      [] name = "performUndo" ->
            IF undoRun.active /\ undoRun.j <= undoRun.k
            THEN [undoRun EXCEPT !.j = @ + 1]
            ELSE NoRun
      [] name \in NeutralCommands ->
            IF undoRun.active /\ undoRun.j = 0 THEN undoRun ELSE NoRun
      [] OTHER -> NoRun

\* redoTrack after the command `name` with outcome `res`: "undone" after a
\* successful undo, "diverged" after a successful paint, erase or clear that
\* follows it, "redoTried" after the redo that follows that.
NextRedoTrack(name, res) ==
    CASE name = "performUndo" /\ res.success -> "undone"
      [] name \in {"paintFocusedCell", "eraseFocusedCell"} /\ res.success ->
            IF redoTrack = "undone" THEN "diverged" ELSE "none"
      [] name = "clearCanvas" ->
            IF redoTrack = "undone" THEN "diverged" ELSE "none"
      [] name = "performRedo" ->
            IF redoTrack = "diverged" THEN "redoTried" ELSE "none"
      [] name \in NeutralCommands ->
            IF redoTrack \in {"undone", "diverged"} THEN redoTrack ELSE "none"
      [] OTHER -> "none"

NoLog == [valid |-> FALSE]

\* no gesture layer is mounted: the commands are issued directly
NoGesture == [layer |-> "none"]

\* references are not modelled: no object is recorded
NoHeap == << >>

\* no clearCanvas is being followed
NoCleared == [active |-> FALSE]

\* cleared after the command `name`: the canvas a clearCanvas was issued on,
\* kept over the performUndo that follows it at once
NextCleared(name) ==
    IF name = "clearCanvas" THEN [active |-> TRUE, canvas |-> canvas]
    ELSE IF name = "performUndo" /\ op.name = "clearCanvas" THEN cleared
    ELSE NoCleared

NoForeign == [id |-> "", path |-> [in |-> "", field |-> ""], kind |-> "none"]

MenuCommands == {"openColorMenu", "closeColorMenu", "nextColor", "prevColor",
                 "confirmColor"}

NoMenu == [phase |-> "none", before |-> "", confirmed |-> "",
           from |-> -1, nexts |-> 0, start |-> -1]

\* menuTrack after the command `name` with outcome `res`, issued in the
\* current state.  phase: "open" after a successful open, "cancelled" after
\* the close that ends it, "confirmed" after the confirm that ends it,
\* "reopened" after the open that follows a confirm, "recancelled" after the
\* close that ends that; only next/prev may come in between.  before: the
\* selected colour when the menu was opened.  confirmed: the selected colour
\* when it was confirmed.  from: the index before the last next/prev.
\* nexts, start: the length of the current run of nextColor (counted up to
\* the palette size) and the index it started from.
NextMenuTrack(name, res) ==
    IF name \notin MenuCommands
    THEN NoMenu
    ELSE IF ~res.success
    THEN NoMenu
    ELSE LET inSession == menuTrack.phase \in {"open", "reopened"}
             afterConfirm == menuTrack.phase = "confirmed"
         IN  CASE name = "openColorMenu" ->
                    [NoMenu EXCEPT
                       !.phase = IF afterConfirm THEN "reopened" ELSE "open",
                       !.before = selectedColor,
                       !.confirmed = IF afterConfirm THEN menuTrack.confirmed
                                     ELSE ""]
               [] name = "nextColor" ->
                    LET continues == menuTrack.nexts \in 1..(Len(AVAILABLE_COLORS) - 1)
                        base == IF inSession THEN menuTrack ELSE NoMenu
                    IN  [base EXCEPT
                           !.from = colorMenuIndex,
                           !.nexts = IF continues THEN menuTrack.nexts + 1 ELSE 1,
                           !.start = IF continues THEN menuTrack.start
                                     ELSE colorMenuIndex]
               [] name = "prevColor" ->
                    LET base == IF inSession THEN menuTrack ELSE NoMenu
                    IN  [base EXCEPT !.from = colorMenuIndex, !.nexts = 0,
                                     !.start = -1]
               [] name = "closeColorMenu" ->
                    IF inSession
                    THEN [NoMenu EXCEPT
                            !.phase = IF menuTrack.phase = "open"
                                      THEN "cancelled" ELSE "recancelled",
                            !.before = menuTrack.before,
                            !.confirmed = menuTrack.confirmed]
                    ELSE NoMenu
               [] name = "confirmColor" ->
                    IF inSession
                    THEN [NoMenu EXCEPT !.phase = "confirmed",
                                        !.confirmed = selectedColor]
                    ELSE NoMenu

(***************************************************************************)
(* useCanvasStore.ts                                                       *)
(***************************************************************************)
Void == [void |-> TRUE]
Thrown(msg) == [threw |-> TRUE, message |-> msg]
NoArg == "none"

\* AVAILABLE_COLORS.indexOf(color), 0-based, -1 when absent
indexOfColor(color) ==
    IF \E i \in 1..Len(AVAILABLE_COLORS) : AVAILABLE_COLORS[i] = color
    THEN (CHOOSE i \in 1..Len(AVAILABLE_COLORS) :
              /\ AVAILABLE_COLORS[i] = color
              /\ \A j \in 1..(i - 1) : AVAILABLE_COLORS[j] # color) - 1
    ELSE -1

\* AVAILABLE_COLORS[index] for a 0-based index
colorAt(index) == AVAILABLE_COLORS[index + 1]

\* bookkeeping common to every store command; a command issued by a handler
\* of the gesture layer leaves the layer's state to the handler
Command(name, arg, res) ==
    /\ steps < budget
    /\ steps' = steps + 1
    /\ op' = [name |-> name, arg |-> arg]
    /\ result' = res
    /\ undoRun' = NextUndoRun(name, res)
    /\ redoTrack' = NextRedoTrack(name, res)
    /\ menuTrack' = NextMenuTrack(name, res)
    /\ cleared' = NextCleared(name)
    /\ UNCHANGED <<maxSizeArg, pushLog, storage, savedFrom, foreign, heap,
                   budget>>
    /\ IF gesture.layer = "none" THEN UNCHANGED gesture ELSE TRUE

\* the store as create() leaves it, with room for `commands` commands
InitialState(commands) ==
    /\ canvas = createCanvas([width |-> DEFAULT_CANVAS_WIDTH,
                              height |-> DEFAULT_CANVAS_HEIGHT])
    /\ history = createHistory(DEFAULT_MAX_HISTORY_SIZE)
    /\ selectedColor = DEFAULT_COLOR
    /\ isColorMenuOpen = FALSE
    /\ colorMenuIndex = 0
    /\ previousColor = DEFAULT_COLOR
    /\ focusPosition = Position(0, 0)
    /\ canUndo = FALSE
    /\ canRedo = FALSE
    /\ op = [name |-> "create", arg |-> NoArg]
    /\ result = Void
    /\ steps = 0
    /\ maxSizeArg = DEFAULT_MAX_HISTORY_SIZE
    /\ undoRun = NoRun
    /\ redoTrack = "none"
    /\ pushLog = NoLog
    /\ menuTrack = NoMenu
    /\ storage = EmptyMap
    /\ savedFrom = EmptyMap
    /\ foreign = NoForeign
    /\ budget = commands

Init == InitialState(MaxSteps) /\ gesture = NoGesture /\ heap = NoHeap
    /\ cleared = NoCleared

\* the values Date.now() may return
Clock == 0..MaxTime

\* the readings the commands and the history functions are given: the
\* earliest and the latest
Readings == {0, MaxTime}

initializeCanvas(width, height) ==
    LET config == [width |-> width, height |-> height]
    IN  IF createCanvasThrows(config)
        THEN /\ Command("initializeCanvas", config,
                        Thrown(createCanvasError(config)))
             /\ UNCHANGED <<canvas, history, storeVars>>
        ELSE /\ Command("initializeCanvas", config, Void)
             /\ canvas' = createCanvas(config)
             /\ history' = createHistory(DEFAULT_MAX_HISTORY_SIZE)
             /\ focusPosition' = Position(0, 0)
             /\ canUndo' = FALSE
             /\ canRedo' = FALSE
             /\ UNCHANGED <<selectedColor, isColorMenuOpen, colorMenuIndex,
                            previousColor>>

setSelectedColor(color) ==
    /\ Command("setSelectedColor", color, Void)
    /\ selectedColor' = color
    /\ UNCHANGED <<canvas, history, isColorMenuOpen, colorMenuIndex,
                   previousColor, focusPosition, canUndo, canRedo>>

\* variant: the focus moves whether or not the colour menu is open
moveFocusDirectionIgnoresMenu(direction) ==
    LET r == moveFocus(canvas, direction)
    IN  /\ Command("moveFocusDirection", direction, r.result)
        /\ IF r.result.success
           THEN /\ canvas' = r.canvas
                /\ focusPosition' = r.canvas.focus
           ELSE UNCHANGED <<canvas, focusPosition>>
        /\ UNCHANGED <<history, selectedColor, isColorMenuOpen,
                       colorMenuIndex, previousColor, canUndo, canRedo>>

moveFocusDirection(direction) ==
    IF isColorMenuOpen
    THEN /\ Command("moveFocusDirection", direction,
                    [success |-> FALSE,
                     message |-> "Cannot move focus while color menu is open"])
         /\ UNCHANGED <<canvas, history, storeVars>>
    ELSE LET r == moveFocus(canvas, direction)
         IN  /\ Command("moveFocusDirection", direction, r.result)
             /\ IF r.result.success
                THEN /\ canvas' = r.canvas
                     /\ focusPosition' = r.canvas.focus
                ELSE UNCHANGED <<canvas, focusPosition>>
             /\ UNCHANGED <<history, selectedColor, isColorMenuOpen,
                            colorMenuIndex, previousColor, canUndo, canRedo>>

\* variant: a successful focus change is recorded as an edit
setFocusPositionRecorded(row, col) ==
    LET r == setFocus(canvas, Position(row, col))
        newHistory == pushUndo(history, createSnapshot(canvas, 0))
    IN  /\ Command("setFocusPosition", Position(row, col), r.result)
        /\ IF r.result.success
           THEN /\ canvas' = r.canvas
                /\ focusPosition' = r.canvas.focus
                /\ history' = newHistory
                /\ canUndo' = historyCanUndo(newHistory)
                /\ canRedo' = historyCanRedo(newHistory)
           ELSE UNCHANGED <<canvas, focusPosition, history, canUndo, canRedo>>
        /\ UNCHANGED <<selectedColor, isColorMenuOpen, colorMenuIndex,
                       previousColor>>

setFocusPosition(row, col) ==
    LET r == setFocus(canvas, Position(row, col))
    IN  /\ Command("setFocusPosition", Position(row, col), r.result)
        /\ IF r.result.success
           THEN /\ canvas' = r.canvas
                /\ focusPosition' = r.canvas.focus
           ELSE UNCHANGED <<canvas, focusPosition>>
        /\ UNCHANGED <<history, selectedColor, isColorMenuOpen,
                       colorMenuIndex, previousColor, canUndo, canRedo>>

moveFocusHome ==
    LET r == moveFocusToHome(canvas)
    IN  /\ Command("moveFocusHome", NoArg, r.result)
        /\ canvas' = r.canvas
        /\ focusPosition' = r.canvas.focus
        /\ UNCHANGED <<history, selectedColor, isColorMenuOpen,
                       colorMenuIndex, previousColor, canUndo, canRedo>>

\* variant: the snapshot is pushed before the outcome of the paint is known
paintFocusedCellAlwaysPush(t) ==
    IF isColorMenuOpen
    THEN /\ Command("paintFocusedCell", NoArg,
                    [success |-> FALSE,
                     message |-> "Cannot paint while color menu is open"])
         /\ UNCHANGED <<canvas, history, storeVars>>
    ELSE LET snapshot == createSnapshot(canvas, t)
             r == paintCell(canvas, selectedColor)
             newHistory == pushUndo(history, snapshot)
         IN  /\ Command("paintFocusedCell", NoArg, r.result)
             /\ canvas' = r.canvas
             /\ history' = newHistory
             /\ canUndo' = historyCanUndo(newHistory)
             /\ canRedo' = historyCanRedo(newHistory)
             /\ UNCHANGED <<selectedColor, isColorMenuOpen, colorMenuIndex,
                            previousColor, focusPosition>>

paintFocusedCell(t) ==
    IF isColorMenuOpen
    THEN /\ Command("paintFocusedCell", NoArg,
                    [success |-> FALSE,
                     message |-> "Cannot paint while color menu is open"])
         /\ UNCHANGED <<canvas, history, storeVars>>
    ELSE LET snapshot == createSnapshot(canvas, t)
             r == paintCell(canvas, selectedColor)
             newHistory == pushUndo(history, snapshot)
         IN  /\ Command("paintFocusedCell", NoArg, r.result)
             /\ IF r.result.success
                THEN /\ canvas' = r.canvas
                     /\ history' = newHistory
                     /\ canUndo' = historyCanUndo(newHistory)
                     /\ canRedo' = historyCanRedo(newHistory)
                ELSE UNCHANGED <<canvas, history, canUndo, canRedo>>
             /\ UNCHANGED <<selectedColor, isColorMenuOpen, colorMenuIndex,
                            previousColor, focusPosition>>

eraseFocusedCell(t) ==
    LET snapshot == createSnapshot(canvas, t)
        r == eraseCell(canvas)
        newHistory == pushUndo(history, snapshot)
    IN  /\ Command("eraseFocusedCell", NoArg, r.result)
        /\ IF r.result.success
           THEN /\ canvas' = r.canvas
                /\ history' = newHistory
                /\ canUndo' = historyCanUndo(newHistory)
                /\ canRedo' = historyCanRedo(newHistory)
           ELSE UNCHANGED <<canvas, history, canUndo, canRedo>>
        /\ UNCHANGED <<selectedColor, isColorMenuOpen, colorMenuIndex,
                       previousColor, focusPosition>>

\* variant: the derived focusPosition is not refreshed after an undo
performUndoStaleFocus(t) ==
    LET r == undo(canvas, history, t)
    IN  /\ Command("performUndo", NoArg, r.result)
        /\ IF r.result.success
           THEN /\ canvas' = r.canvas
                /\ history' = r.history
                /\ canUndo' = historyCanUndo(r.history)
                /\ canRedo' = historyCanRedo(r.history)
           ELSE UNCHANGED <<canvas, history, canUndo, canRedo>>
        /\ UNCHANGED <<selectedColor, isColorMenuOpen, colorMenuIndex,
                       previousColor, focusPosition>>

performUndo(t) ==
    LET r == undo(canvas, history, t)
    IN  /\ Command("performUndo", NoArg, r.result)
        /\ IF r.result.success
           THEN /\ canvas' = r.canvas
                /\ history' = r.history
                /\ focusPosition' = r.canvas.focus
                /\ canUndo' = historyCanUndo(r.history)
                /\ canRedo' = historyCanRedo(r.history)
           ELSE UNCHANGED <<canvas, history, focusPosition, canUndo, canRedo>>
        /\ UNCHANGED <<selectedColor, isColorMenuOpen, colorMenuIndex,
                       previousColor>>

performRedo(t) ==
    LET r == redo(canvas, history, t)
    IN  /\ Command("performRedo", NoArg, r.result)
        /\ IF r.result.success
           THEN /\ canvas' = r.canvas
                /\ history' = r.history
                /\ focusPosition' = r.canvas.focus
                /\ canUndo' = historyCanUndo(r.history)
                /\ canRedo' = historyCanRedo(r.history)
           ELSE UNCHANGED <<canvas, history, focusPosition, canUndo, canRedo>>
        /\ UNCHANGED <<selectedColor, isColorMenuOpen, colorMenuIndex,
                       previousColor>>

\* variant: the cells are dropped without a snapshot for undo
clearCanvasNoSnapshot(t) ==
    /\ Command("clearCanvas", NoArg, Void)
    /\ canvas' = [canvas EXCEPT !.cells = EmptyMap]
    /\ UNCHANGED <<history, storeVars>>

clearCanvas(t) ==
    LET snapshot == createSnapshot(canvas, t)
        newCanvas == [canvas EXCEPT !.cells = EmptyMap]
        newHistory == pushUndo(history, snapshot)
    IN  /\ Command("clearCanvas", NoArg, Void)
        /\ canvas' = newCanvas
        /\ history' = newHistory
        /\ canUndo' = historyCanUndo(newHistory)
        /\ canRedo' = historyCanRedo(newHistory)
        /\ UNCHANGED <<selectedColor, isColorMenuOpen, colorMenuIndex,
                       previousColor, focusPosition>>

MenuClosedResult == [success |-> FALSE, message |-> "Color menu is not open"]

openColorMenu ==
    IF isColorMenuOpen
    THEN /\ Command("openColorMenu", NoArg,
                    [success |-> FALSE, message |-> "Color menu is already open"])
         /\ UNCHANGED <<canvas, history, storeVars>>
    ELSE LET currentIndex == indexOfColor(selectedColor)
             menuIndex == IF currentIndex >= 0 THEN currentIndex ELSE 0
         IN  /\ Command("openColorMenu", NoArg,
                        [success |-> TRUE,
                         message |-> "Color menu opened at " \o colorAt(menuIndex),
                         color |-> colorAt(menuIndex)])
             /\ isColorMenuOpen' = TRUE
             /\ colorMenuIndex' = menuIndex
             /\ previousColor' = selectedColor
             /\ UNCHANGED <<canvas, history, selectedColor, focusPosition,
                            canUndo, canRedo>>

\* variant: the menu closes on the colour browsed to
closeColorMenuKeepsBrowsed ==
    IF ~isColorMenuOpen
    THEN /\ Command("closeColorMenu", NoArg, MenuClosedResult)
         /\ UNCHANGED <<canvas, history, storeVars>>
    ELSE /\ Command("closeColorMenu", NoArg,
                    [success |-> TRUE,
                     message |-> "Color menu closed, restored color "
                                 \o previousColor,
                     color |-> previousColor])
         /\ isColorMenuOpen' = FALSE
         /\ UNCHANGED <<canvas, history, selectedColor, colorMenuIndex,
                        previousColor, focusPosition, canUndo, canRedo>>

\* variant: the menu is closed without asking whether it is open
closeColorMenuUnguarded ==
    /\ Command("closeColorMenu", NoArg,
               [success |-> TRUE,
                message |-> "Color menu closed, restored color "
                            \o previousColor,
                color |-> previousColor])
    /\ isColorMenuOpen' = FALSE
    /\ selectedColor' = previousColor
    /\ UNCHANGED <<canvas, history, colorMenuIndex, previousColor,
                   focusPosition, canUndo, canRedo>>

closeColorMenu ==
    IF ~isColorMenuOpen
    THEN /\ Command("closeColorMenu", NoArg, MenuClosedResult)
         /\ UNCHANGED <<canvas, history, storeVars>>
    ELSE /\ Command("closeColorMenu", NoArg,
                    [success |-> TRUE,
                     message |-> "Color menu closed, restored color "
                                 \o previousColor,
                     color |-> previousColor])
         /\ isColorMenuOpen' = FALSE
         /\ selectedColor' = previousColor
         /\ UNCHANGED <<canvas, history, colorMenuIndex, previousColor,
                        focusPosition, canUndo, canRedo>>

\* variant: browsing stops at the last colour instead of wrapping
nextColorStopsAtLast ==
    IF ~isColorMenuOpen
    THEN /\ Command("nextColor", NoArg, MenuClosedResult)
         /\ UNCHANGED <<canvas, history, storeVars>>
    ELSE LET newIndex == IF colorMenuIndex + 1 < Len(AVAILABLE_COLORS)
                         THEN colorMenuIndex + 1 ELSE colorMenuIndex
             newColor == colorAt(newIndex)
         IN  /\ Command("nextColor", NoArg,
                        [success |-> TRUE, message |-> "Selected " \o newColor,
                         color |-> newColor])
             /\ colorMenuIndex' = newIndex
             /\ selectedColor' = newColor
             /\ UNCHANGED <<canvas, history, isColorMenuOpen, previousColor,
                            focusPosition, canUndo, canRedo>>

nextColor ==
    IF ~isColorMenuOpen
    THEN /\ Command("nextColor", NoArg, MenuClosedResult)
         /\ UNCHANGED <<canvas, history, storeVars>>
    ELSE LET newIndex == (colorMenuIndex + 1) % Len(AVAILABLE_COLORS)
             newColor == colorAt(newIndex)
         IN  /\ Command("nextColor", NoArg,
                        [success |-> TRUE, message |-> "Selected " \o newColor,
                         color |-> newColor])
             /\ colorMenuIndex' = newIndex
             /\ selectedColor' = newColor
             /\ UNCHANGED <<canvas, history, isColorMenuOpen, previousColor,
                            focusPosition, canUndo, canRedo>>

prevColor ==
    IF ~isColorMenuOpen
    THEN /\ Command("prevColor", NoArg, MenuClosedResult)
         /\ UNCHANGED <<canvas, history, storeVars>>
    ELSE LET newIndex == (colorMenuIndex - 1 + Len(AVAILABLE_COLORS))
                             % Len(AVAILABLE_COLORS)
             newColor == colorAt(newIndex)
         IN  /\ Command("prevColor", NoArg,
                        [success |-> TRUE, message |-> "Selected " \o newColor,
                         color |-> newColor])
             /\ colorMenuIndex' = newIndex
             /\ selectedColor' = newColor
             /\ UNCHANGED <<canvas, history, isColorMenuOpen, previousColor,
                            focusPosition, canUndo, canRedo>>

\* variant: the colour to restore is not replaced by the confirmed one
confirmColorKeepsPrevious ==
    IF ~isColorMenuOpen
    THEN /\ Command("confirmColor", NoArg, MenuClosedResult)
         /\ UNCHANGED <<canvas, history, storeVars>>
    ELSE /\ Command("confirmColor", NoArg,
                    [success |-> TRUE,
                     message |-> "Confirmed color " \o selectedColor,
                     color |-> selectedColor])
         /\ isColorMenuOpen' = FALSE
         /\ UNCHANGED <<canvas, history, selectedColor, colorMenuIndex,
                        previousColor, focusPosition, canUndo, canRedo>>

confirmColor ==
    IF ~isColorMenuOpen
    THEN /\ Command("confirmColor", NoArg, MenuClosedResult)
         /\ UNCHANGED <<canvas, history, storeVars>>
    ELSE /\ Command("confirmColor", NoArg,
                    [success |-> TRUE,
                     message |-> "Confirmed color " \o selectedColor,
                     color |-> selectedColor])
         /\ isColorMenuOpen' = FALSE
         /\ previousColor' = selectedColor
         /\ UNCHANGED <<canvas, history, selectedColor, colorMenuIndex,
                        focusPosition, canUndo, canRedo>>

\* arguments the commands are issued with
StoreDimInputs == {<<MaxDim, 1>>, <<1, MaxDim>>, <<0, MaxDim>>}
StorePosInputs == {Position(1, 1), Position(-1, 0),
                   Position(0, DEFAULT_CANVAS_WIDTH),
                   Position(DEFAULT_CANVAS_HEIGHT - 1, DEFAULT_CANVAS_WIDTH - 1)}

Next ==
    \/ \E d \in StoreDimInputs : initializeCanvas(d[1], d[2])
    \/ \E color \in StoreColorInputs : setSelectedColor(color)
    \/ \E direction \in Direction : moveFocusDirection(direction)
    \/ \E p \in StorePosInputs : setFocusPosition(p.row, p.col)
    \/ moveFocusHome
    \/ \E t \in Readings : paintFocusedCell(t)
    \/ \E t \in Readings : eraseFocusedCell(t)
    \/ \E t \in Readings : performUndo(t)
    \/ \E t \in Readings : performRedo(t)
    \/ \E t \in Readings : clearCanvas(t)
    \/ openColorMenu
    \/ closeColorMenu
    \/ nextColor
    \/ prevColor
    \/ confirmColor

Spec == Init /\ [][Next]_vars

(***************************************************************************)
(* The colour commands alone.  No other command writes selectedColor,      *)
(* isColorMenuOpen, colorMenuIndex or previousColor, and the colour        *)
(* commands read and write nothing else.                                   *)
(***************************************************************************)
InitMenu == InitialState(MaxMenuSteps) /\ gesture = NoGesture /\ heap = NoHeap
    /\ cleared = NoCleared

NextMenu ==
    \/ \E color \in StoreColorInputs : setSelectedColor(color)
    \/ openColorMenu
    \/ closeColorMenu
    \/ nextColor
    \/ prevColor
    \/ confirmColor

SpecMenu == InitMenu /\ [][NextMenu]_vars

(***************************************************************************)
(* The pure functions, applied one call at a time: each call replaces the  *)
(* canvas and the history by the ones the function returned.               *)
(***************************************************************************)
\* pushLog after the call `name` with outcome `res`: the snapshots handed
\* to pushUndo, then the number of successful undos; a redo, or a push
\* after an undo, ends the log.
NextPushLog(name, res, snapshot) ==
    CASE name = "pushUndo" ->
            IF pushLog.valid /\ pushLog.undos = 0
            THEN [pushLog EXCEPT !.pushed = Append(@, snapshot)]
            ELSE NoLog
      [] name = "undo" /\ res.success ->
            IF pushLog.valid THEN [pushLog EXCEPT !.undos = @ + 1] ELSE NoLog
      [] name = "redo" /\ res.success -> NoLog
      [] OTHER -> pushLog

Call(name, arg, res, snapshot) ==
    /\ steps < budget
    /\ steps' = steps + 1
    /\ op' = [name |-> name, arg |-> arg]
    /\ result' = res
    /\ pushLog' = NextPushLog(name, res, snapshot)
    /\ UNCHANGED <<storeVars, maxSizeArg, undoRun, redoTrack, menuTrack,
                   storage, savedFrom, foreign, gesture,
                   heap, cleared, budget>>

NoSnapshot == "none"

\* arguments createCanvas and createHistory are called with: a single row
\* and a single column; a negative, a zero and a positive history size
PureDimInputs == {<<MaxDim, 1>>, <<1, MaxDim>>}
HistoryArgInputs == {-1, 0, MaxHistoryArg}

InitPure ==
    \E d \in PureDimInputs, m \in HistoryArgInputs :
        /\ canvas = createCanvas([width |-> d[1], height |-> d[2]])
        /\ history = createHistory(m)
        /\ maxSizeArg = m
        /\ selectedColor = DEFAULT_COLOR
        /\ isColorMenuOpen = FALSE
        /\ colorMenuIndex = 0
        /\ previousColor = DEFAULT_COLOR
        /\ focusPosition = Position(0, 0)
        /\ canUndo = FALSE
        /\ canRedo = FALSE
        /\ op = [name |-> "createHistory", arg |-> m]
        /\ result = Void
        /\ steps = 0
        /\ undoRun = NoRun
        /\ redoTrack = "none"
        /\ pushLog = [valid |-> TRUE, pushed |-> << >>, undos |-> 0]
        /\ menuTrack = NoMenu
        /\ storage = EmptyMap
        /\ savedFrom = EmptyMap
        /\ foreign = NoForeign
        /\ gesture = NoGesture /\ heap = NoHeap
        /\ cleared = NoCleared
        /\ budget = MaxCalls

CallPaintCell(color) ==
    LET r == paintCell(canvas, color)
    IN  /\ Call("paintCell", color, r.result, NoSnapshot)
        /\ canvas' = r.canvas
        /\ UNCHANGED history

CallEraseCell ==
    LET r == eraseCell(canvas)
    IN  /\ Call("eraseCell", NoArg, r.result, NoSnapshot)
        /\ canvas' = r.canvas
        /\ UNCHANGED history

CallMoveFocus(direction) ==
    LET r == moveFocus(canvas, direction)
    IN  /\ Call("moveFocus", direction, r.result, NoSnapshot)
        /\ canvas' = r.canvas
        /\ UNCHANGED history

CallSetFocus(position) ==
    LET r == setFocus(canvas, position)
    IN  /\ Call("setFocus", position, r.result, NoSnapshot)
        /\ canvas' = r.canvas
        /\ UNCHANGED history

CallMoveFocusToHome ==
    LET r == moveFocusToHome(canvas)
    IN  /\ Call("moveFocusToHome", NoArg, r.result, NoSnapshot)
        /\ canvas' = r.canvas
        /\ UNCHANGED history

CallMoveFocusToEnd ==
    LET r == moveFocusToEnd(canvas)
    IN  /\ Call("moveFocusToEnd", NoArg, r.result, NoSnapshot)
        /\ canvas' = r.canvas
        /\ UNCHANGED history

CallClearAllCells ==
    /\ Call("clearAllCells", NoArg, Void, NoSnapshot)
    /\ canvas' = clearAllCells(canvas)
    /\ UNCHANGED history

CallPushUndo(t) ==
    LET snapshot == createSnapshot(canvas, t)
    IN  /\ Call("pushUndo", snapshot, Void, snapshot)
        /\ history' = pushUndo(history, snapshot)
        /\ UNCHANGED canvas

CallUndo(t) ==
    LET r == undo(canvas, history, t)
    IN  /\ Call("undo", NoArg, r.result, NoSnapshot)
        /\ canvas' = r.canvas
        /\ history' = r.history

CallRedo(t) ==
    LET r == redo(canvas, history, t)
    IN  /\ Call("redo", NoArg, r.result, NoSnapshot)
        /\ canvas' = r.canvas
        /\ history' = r.history

PurePosInputs == {Position(0, MaxDim - 1), Position(MaxDim - 1, 0),
                  Position(-1, 0)}

NextPure ==
    \/ \E color \in PureColorInputs : CallPaintCell(color)
    \/ CallEraseCell
    \/ \E direction \in Direction : CallMoveFocus(direction)
    \/ \E position \in PurePosInputs : CallSetFocus(position)
    \/ CallMoveFocusToHome
    \/ CallMoveFocusToEnd
    \/ CallClearAllCells
    \/ \E t \in Readings : CallPushUndo(t)
    \/ \E t \in Readings : CallUndo(t)
    \/ \E t \in Readings : CallRedo(t)

SpecPure == InitPure /\ [][NextPure]_vars

(***************************************************************************)
(* The canonical export, applied to canvases painted in any order on a     *)
(* square grid.                                                            *)
(***************************************************************************)
ExportColorInputs == {"#FF0000", "Red"}

\* an empty square canvas, with room for `calls` function applications
SquareCanvas(calls) ==
    /\ canvas = createCanvas([width |-> MaxDim, height |-> MaxDim])
    /\ history = createHistory(DEFAULT_MAX_HISTORY_SIZE)
    /\ maxSizeArg = DEFAULT_MAX_HISTORY_SIZE
    /\ selectedColor = DEFAULT_COLOR
    /\ isColorMenuOpen = FALSE
    /\ colorMenuIndex = 0
    /\ previousColor = DEFAULT_COLOR
    /\ focusPosition = Position(0, 0)
    /\ canUndo = FALSE
    /\ canRedo = FALSE
    /\ op = [name |-> "createCanvas", arg |-> NoArg]
    /\ result = Void
    /\ steps = 0
    /\ undoRun = NoRun
    /\ redoTrack = "none"
    /\ pushLog = NoLog
    /\ menuTrack = NoMenu
    /\ savedFrom = EmptyMap
    /\ budget = calls

\* AsyncStorage holding nothing
EmptyStorage ==
    /\ storage = EmptyMap
    /\ foreign = NoForeign
    /\ gesture = NoGesture /\ heap = NoHeap
    /\ cleared = NoCleared

InitExport == SquareCanvas(MaxExportCalls) /\ EmptyStorage

CallCanvasToJSON(t) ==
    /\ Call("canvasToJSON", NoArg, canvasToJSON(canvas, t), NoSnapshot)
    /\ UNCHANGED <<canvas, history>>

NextExport ==
    \/ \E color \in ExportColorInputs : CallPaintCell(color)
    \/ \E direction \in Direction : CallMoveFocus(direction)
    \/ \E t \in Clock : CallCanvasToJSON(t)

SpecExport == InitExport /\ [][NextExport]_vars

(***************************************************************************)
(* saveCanvas and loadCanvas, applied to canvases painted on a square      *)
(* grid.                                                                   *)
(***************************************************************************)
\* saveCanvas is called without a name, so it makes one up
NameInputs == {""}
LoadIdInputs == {ToString(t) : t \in Clock} \cup {"missing"}

InitStorage == SquareCanvas(MaxStorageCalls) /\ EmptyStorage

\* bookkeeping common to the storage functions
StorageCall(name, arg, res) ==
    /\ steps < budget
    /\ steps' = steps + 1
    /\ op' = [name |-> name, arg |-> arg]
    /\ result' = res
    /\ UNCHANGED <<canvas, history, storeVars, maxSizeArg, undoRun,
                   redoTrack, pushLog, menuTrack, foreign, gesture,
                   heap, cleared, budget>>

CallSaveCanvas(name, t1, t2) ==
    LET r == saveCanvas(storage, canvas, name, t1, t2)
    IN  /\ StorageCall("saveCanvas", name, r.result)
        /\ storage' = r.storage
        /\ savedFrom' = MapSet(savedFrom, ToString(t1), canvas)

CallLoadCanvas(id) ==
    /\ StorageCall("loadCanvas", id, loadCanvas(storage, id))
    /\ UNCHANGED <<storage, savedFrom>>

NextStorage ==
    \/ \E color \in ExportColorInputs : CallPaintCell(color)
    \/ \E direction \in Direction : CallMoveFocus(direction)
    \/ \E name \in NameInputs, t1 \in Clock, t2 \in Clock :
           t1 <= t2 /\ CallSaveCanvas(name, t1, t2)
    \/ \E id \in LoadIdInputs : CallLoadCanvas(id)

SpecStorage == InitStorage /\ [][NextStorage]_vars

(***************************************************************************)
(* loadCanvas on a record that saveCanvas did not write: AsyncStorage      *)
(* outlives the program, so at start it may hold a record left by another  *)
(* build or damaged since.  The record is the one canvasToSaved makes of a *)
(* canvas with one painted cell, with one field removed or replaced by a   *)
(* value of another type, or with a newer version, or left intact, or not  *)
(* JSON at all.                                                            *)
(***************************************************************************)
LegacyId == "legacy"

LegacyCanvas ==
    paintCell(createCanvas([width |-> MaxDim, height |-> MaxDim]),
              "#FF0000").canvas

\* the fields of SavedCanvas, by the object that holds them, and their types
SavedFields ==
    {[in |-> "record", field |-> f] :
        f \in {"id", "name", "version", "timestamp", "canvas"}}
    \cup {[in |-> "canvas", field |-> f] :
        f \in {"width", "height", "focus", "cells"}}
    \cup {[in |-> "focus", field |-> f] : f \in {"row", "col"}}
    \cup {[in |-> "cells", field |-> "0"]}
    \cup {[in |-> "cell", field |-> f] : f \in {"row", "col", "color"}}

fieldType(path) ==
    CASE path.field \in {"id", "name", "color"} -> "string"
      [] path.field \in {"canvas", "focus", "0"} -> "object"
      [] path.field = "cells" -> "array"
      [] OTHER -> "number"

\* what may stand in the place of a field: nothing, or a value of a type
\* the field does not have (an array element cannot be missing)
Damages ==
    {d \in [path : SavedFields,
            kind : {"missing", "null", "number", "string", "array", "object"}] :
        /\ d.kind # fieldType(d.path)
        /\ ~(d.path.in = "cells" /\ d.kind = "missing")}

ForeignInputs ==
    Damages
    \cup {[path |-> [in |-> "record", field |-> "version"], kind |-> k] :
             k \in {"newer", "intact"}}
    \cup {[path |-> [in |-> "", field |-> ""], kind |-> "malformed"]}

wrongValue(kind) ==
    CASE kind = "null" -> [type |-> "null"]
      [] kind = "number" -> JsNumber(1)
      [] kind = "string" -> JsString("1")
      [] kind = "array" -> JsArray(<< >>)
      [] kind = "object" -> JsObject(<< >>)

\* the object with one field given another value
withField(obj, name, v) == JsObject([obj.fields EXCEPT ![name] = v])

\* the object with one field removed or mistyped
damagedObject(obj, name, kind) ==
    IF kind = "missing"
    THEN JsObject([k \in DOMAIN obj.fields \ {name} |-> obj.fields[k]])
    ELSE withField(obj, name, wrongValue(kind))

damagedRecord(saved, path, kind) ==
    LET c == saved.fields.canvas
        focus == c.fields.focus
        cells == c.fields.cells
    IN  CASE kind = "intact" -> saved
          [] kind = "newer" ->
                withField(saved, "version", JsNumber(STORAGE_VERSION + 1))
          [] path.in = "record" -> damagedObject(saved, path.field, kind)
          [] path.in = "canvas" ->
                withField(saved, "canvas", damagedObject(c, path.field, kind))
          [] path.in = "focus" ->
                withField(saved, "canvas",
                    withField(c, "focus",
                              damagedObject(focus, path.field, kind)))
          [] path.in = "cells" ->
                withField(saved, "canvas",
                    withField(c, "cells",
                        JsArray([cells.items EXCEPT ![1] = wrongValue(kind)])))
          [] path.in = "cell" ->
                withField(saved, "canvas",
                    withField(c, "cells",
                        JsArray([cells.items EXCEPT ![1] =
                            damagedObject(cells.items[1], path.field, kind)])))

foreignDocument(path, kind) ==
    IF kind = "malformed"
    THEN Malformed
    ELSE JSONstringify(
             damagedRecord(canvasToSaved(LegacyCanvas, "old", LegacyId, 0),
                           path, kind))

InitLoad ==
    /\ SquareCanvas(MaxLoadCalls)
    /\ gesture = NoGesture /\ heap = NoHeap
    /\ cleared = NoCleared
    /\ \E d \in ForeignInputs :
          /\ foreign = [id |-> LegacyId, path |-> d.path, kind |-> d.kind]
          /\ storage = MapSet(EmptyMap, CANVAS_STORAGE_PREFIX \o LegacyId,
                              foreignDocument(d.path, d.kind))

NextLoad ==
    \/ \E color \in ExportColorInputs : CallPaintCell(color)
    \/ \E name \in NameInputs, t1 \in Clock, t2 \in Clock :
           t1 <= t2 /\ CallSaveCanvas(name, t1, t2)
    \/ \E id \in LoadIdInputs \cup {LegacyId} : CallLoadCanvas(id)

SpecLoad == InitLoad /\ [][NextLoad]_vars

(***************************************************************************)
(* loadCanvas on a record of the current version whose fields all have     *)
(* their types, but which holds a focus or a cell outside its own grid, or *)
(* a colour that isValidColor rejects.                                     *)
(***************************************************************************)
GridInputs ==
    {[path |-> [in |-> "focus", field |-> "row"], kind |-> "outside"],
     [path |-> [in |-> "focus", field |-> "col"], kind |-> "outside"],
     [path |-> [in |-> "cell", field |-> "row"], kind |-> "outside"],
     [path |-> [in |-> "cell", field |-> "col"], kind |-> "outside"],
     [path |-> [in |-> "cell", field |-> "color"], kind |-> "invalid"],
     [path |-> [in |-> "record", field |-> "version"], kind |-> "intact"]}

\* a row or column just past the grid of LegacyCanvas; a colour that is
\* neither a hex code nor a CSS name
OutsideValue == JsNumber(MaxDim)
InvalidColorValue == JsString("nocolor")

misplacedRecord(saved, path, kind) ==
    LET c == saved.fields.canvas
        focus == c.fields.focus
        cells == c.fields.cells
        v == IF kind = "invalid" THEN InvalidColorValue ELSE OutsideValue
    IN  CASE kind = "intact" -> saved
          [] path.in = "focus" ->
                withField(saved, "canvas",
                    withField(c, "focus", withField(focus, path.field, v)))
          [] path.in = "cell" ->
                withField(saved, "canvas",
                    withField(c, "cells",
                        JsArray([cells.items EXCEPT ![1] =
                            withField(cells.items[1], path.field, v)])))

InitLoadGrid ==
    /\ SquareCanvas(MaxLoadCalls)
    /\ gesture = NoGesture /\ heap = NoHeap
    /\ cleared = NoCleared
    /\ \E d \in GridInputs :
          /\ foreign = [id |-> LegacyId, path |-> d.path, kind |-> d.kind]
          /\ storage = MapSet(EmptyMap, CANVAS_STORAGE_PREFIX \o LegacyId,
                 JSONstringify(misplacedRecord(
                     canvasToSaved(LegacyCanvas, "old", LegacyId, 0),
                     d.path, d.kind)))

SpecLoadGrid == InitLoadGrid /\ [][NextLoad]_vars

(***************************************************************************)
(* ui/ActionMenu.tsx: documents.  The store commands together with the     *)
(* menu's Save and Load, on the store as create() leaves it and an empty   *)
(* AsyncStorage.  The awaits of a handler are taken in one step: the menu  *)
(* is modal while it works.                                                *)
(***************************************************************************)
MaxDocSteps == 4       \* commands and menu actions in one behaviour

\* handleSavePrompt and handleSave: an empty canvas is not saved; the name
\* field is left empty; what saveCanvas returns is not looked at
handleSave(t1, t2) ==
    IF Len(canvas.cells) = 0
    THEN /\ StorageCall("handleSave", NoArg, Void)
         /\ UNCHANGED <<storage, savedFrom>>
    ELSE LET r == saveCanvas(storage, canvas, "", t1, t2)
         IN  /\ StorageCall("handleSave", NoArg, Void)
             /\ storage' = r.storage
             /\ savedFrom' = MapSet(savedFrom, ToString(t1), canvas)

\* the result recorded is what loadCanvas returned, without the canvas
loadCanvasById(id) ==
    LET r == loadCanvas(storage, id)
        loaded == [success |-> r.success, message |-> r.message]
    IN  /\ Command("loadCanvasById", id, loaded)
        /\ IF r.success
           THEN /\ canvas' = r.canvas
                /\ focusPosition' = r.canvas.focus
                /\ canUndo' = FALSE
                /\ canRedo' = FALSE
           ELSE UNCHANGED <<canvas, focusPosition, canUndo, canRedo>>
        /\ UNCHANGED <<history, selectedColor, isColorMenuOpen, colorMenuIndex,
                       previousColor>>

DocIdInputs == {ToString(t) : t \in Readings} \cup {"missing"}

InitDocument ==
    /\ InitialState(MaxDocSteps)
    /\ gesture = NoGesture /\ heap = NoHeap
    /\ cleared = NoCleared

NextDocument ==
    \/ \E t \in Readings : paintFocusedCell(t)
    \/ moveFocusDirection("right")
    \/ initializeCanvas(MaxDim, 1)
    \/ \E t \in Readings : performUndo(t)
    \/ \E t \in Readings : performRedo(t)
    \/ \E t \in Readings : handleSave(t, t)
    \/ \E id \in DocIdInputs : loadCanvasById(id)

SpecDocument == InitDocument /\ [][NextDocument]_vars

(***************************************************************************)
(* The store with its history nearly full: the state the store is in after *)
(* DEFAULT_MAX_HISTORY_SIZE - 1 paintFocusedCell commands on the focused   *)
(* cell, so that the next pushes reach the maximum and trim.               *)
(***************************************************************************)
MaxFullSteps == 4      \* commands issued to the nearly full store

\* canvas and history after k >= 1 paintFocusedCell commands at time 0, with
\* k <= DEFAULT_MAX_HISTORY_SIZE: the first snapshot is of the empty canvas,
\* the others are of the canvas with the focused cell painted
paintedTimes(k) ==
    LET empty == createCanvas([width |-> DEFAULT_CANVAS_WIDTH,
                               height |-> DEFAULT_CANVAS_HEIGHT])
        painted == paintCell(empty, DEFAULT_COLOR).canvas
    IN  [canvas |-> painted,
         history |->
             [createHistory(DEFAULT_MAX_HISTORY_SIZE) EXCEPT
                !.undoStack =
                    [i \in 1..k |-> createSnapshot(IF i = 1 THEN empty
                                                   ELSE painted, 0)]]]

InitFull ==
    LET s == paintedTimes(DEFAULT_MAX_HISTORY_SIZE - 1)
    IN  /\ canvas = s.canvas
        /\ history = s.history
        /\ selectedColor = DEFAULT_COLOR
        /\ isColorMenuOpen = FALSE
        /\ colorMenuIndex = 0
        /\ previousColor = DEFAULT_COLOR
        /\ focusPosition = Position(0, 0)
        /\ canUndo = TRUE
        /\ canRedo = FALSE
        /\ op = [name |-> "paintFocusedCell", arg |-> NoArg]
        /\ result = paintCell(s.canvas, DEFAULT_COLOR).result
        /\ steps = 0
        /\ maxSizeArg = DEFAULT_MAX_HISTORY_SIZE
        /\ undoRun = NoRun
        /\ redoTrack = "none"
        /\ pushLog = NoLog
        /\ menuTrack = NoMenu
        /\ storage = EmptyMap
        /\ savedFrom = EmptyMap
        /\ foreign = NoForeign
        /\ gesture = NoGesture
        /\ heap = NoHeap
        /\ cleared = NoCleared
        /\ budget = MaxFullSteps

NextFull ==
    \/ \E t \in Readings : paintFocusedCell(t)
    \/ \E t \in Readings : eraseFocusedCell(t)
    \/ \E t \in Readings : clearCanvas(t)
    \/ \E t \in Readings : performUndo(t)
    \/ \E t \in Readings : performRedo(t)
    \/ moveFocusDirection("right")

SpecFull == InitFull /\ [][NextFull]_vars

(***************************************************************************)
(* The text description, applied to painted canvases: every choice of at   *)
(* most MaxPainted cells in one colour, and every colouring of at most     *)
(* MaxMixed cells, painted from the last cell of the last row backwards.   *)
(* The function is pure, so it is applied once to each canvas.             *)
(***************************************************************************)
DescribeColorInputs == {"#ff0000", "Red"}

LineGrid == (0..(MaxLineDim - 1)) \X (0..(MaxLineDim - 1))

Colourings ==
    UNION {
       {[pos \in painted |-> color] : color \in DescribeColorInputs}
          \cup (IF Cardinality(painted) <= MaxMixed
                THEN [painted -> DescribeColorInputs] ELSE {})
       : painted \in {S \in SUBSET LineGrid : Cardinality(S) <= MaxPainted} }

\* the cells of a colouring in reverse row-major order: what paintCell
\* leaves when the cells are painted in that order
RECURSIVE paintedInOrder(_, _)
paintedInOrder(colouring, n) ==
    IF n = 0 THEN EmptyMap
    ELSE LET at == MaxLineDim * MaxLineDim - n
             pos == <<at \div MaxLineDim, at % MaxLineDim>>
             before == paintedInOrder(colouring, n - 1)
         IN  IF pos \in DOMAIN colouring
             THEN MapSet(before, getCellKey(Position(pos[1], pos[2])),
                         [row |-> pos[1], col |-> pos[2],
                          color |-> colouring[pos]])
             ELSE before

InitDescribe ==
    /\ \E colouring \in Colourings :
          canvas = [config |-> [width |-> MaxLineDim, height |-> MaxLineDim],
                    focus |-> Position(0, 0),
                    cells |-> paintedInOrder(colouring, MaxLineDim * MaxLineDim)]
    /\ history = createHistory(DEFAULT_MAX_HISTORY_SIZE)
    /\ maxSizeArg = DEFAULT_MAX_HISTORY_SIZE
    /\ selectedColor = DEFAULT_COLOR
    /\ isColorMenuOpen = FALSE
    /\ colorMenuIndex = 0
    /\ previousColor = DEFAULT_COLOR
    /\ focusPosition = Position(0, 0)
    /\ canUndo = FALSE
    /\ canRedo = FALSE
    /\ op = [name |-> "paintCell", arg |-> NoArg]
    /\ result = Void
    /\ steps = 0
    /\ undoRun = NoRun
    /\ redoTrack = "none"
    /\ pushLog = NoLog
    /\ menuTrack = NoMenu
    /\ savedFrom = EmptyMap
    /\ budget = 1
    /\ EmptyStorage

CallCanvasToDescription ==
    /\ Call("canvasToDescription", NoArg, canvasToDescription(canvas), NoSnapshot)
    /\ UNCHANGED <<canvas, history>>

NextDescribe == CallCanvasToDescription

SpecDescribe == InitDescribe /\ [][NextDescribe]_vars

(***************************************************************************)
(* detectSwipeDirection, applied once to a pan: every translation up to    *)
(* MaxTranslation either way, at velocities under, at and over the         *)
(* threshold (300-400-500 is a right triangle; 353 and 354 lie either side *)
(* of 500 / sqrt 2).                                                       *)
(***************************************************************************)
VelocityInputs == {-500, -400, -354, -353, 0, 300, 353, 354, 499, 500}

PanInputs ==
    [translationX : (-MaxTranslation)..MaxTranslation,
     translationY : (-MaxTranslation)..MaxTranslation,
     velocityX : VelocityInputs, velocityY : VelocityInputs]

InitSwipe == SquareCanvas(1) /\ EmptyStorage

CallDetectSwipeDirection(pan) ==
    /\ Call("detectSwipeDirection", pan, detectSwipeDirection(pan), NoSnapshot)
    /\ UNCHANGED <<canvas, history>>

NextSwipe == \E pan \in PanInputs : CallDetectSwipeDirection(pan)

SpecSwipe == InitSwipe /\ [][NextSwipe]_vars

(***************************************************************************)
(* useCanvasGestures.ts: the hook binding the recognisers to the store.    *)
(* Each recogniser callback is one step.  Date.now() never runs backwards; *)
(* a callback runs `delay` ms after the one before it.                     *)
(***************************************************************************)
GESTURE_DEBOUNCE_MS == 100

\* Date.now() when the hook is mounted: any reading of the epoch clock is
\* at least GESTURE_DEBOUNCE_MS past the initial lastGestureTime of 0
MountTime == 1000

\* ms between two callbacks: inside and outside the debounce interval
DelayInputs == {50, 100}

\* the pans that end: one fast swipe each way, a slow one and a diagonal one
HookPanInputs ==
    {[translationX |-> 80, translationY |-> 5, velocityX |-> 600, velocityY |-> 0],
     [translationX |-> -80, translationY |-> 5, velocityX |-> -600, velocityY |-> 0],
     [translationX |-> 5, translationY |-> 80, velocityX |-> 0, velocityY |-> 600],
     [translationX |-> 5, translationY |-> -80, velocityX |-> 0, velocityY |-> -600],
     [translationX |-> 80, translationY |-> 5, velocityX |-> 100, velocityY |-> 0],
     [translationX |-> 80, translationY |-> 80, velocityX |-> 400, velocityY |-> 400]}

NoIntent == "none"
NoTime == -1

\* lastGestureTime is the ref; the other fields record the last callback:
\* the recogniser, the swipe it detected, whether the menu was open, the
\* intent it handed to processIntent, whether that got past the debounce,
\* and when the last two dispatches and the last suppression happened
HookMounted ==
    [layer |-> "hook", now |-> MountTime, lastGestureTime |-> 0,
     event |-> "mount", direction |-> NoDirection, menuWasOpen |-> FALSE,
     intent |-> NoIntent, dispatched |-> FALSE,
     dispatchedAt |-> NoTime, dispatchedBefore |-> NoTime,
     suppressedAt |-> NoTime]

\* the callback ends without a store command: processIntent returns null,
\* or is not called at all
NoCommand ==
    /\ steps < budget
    /\ steps' = steps + 1
    /\ op' = [name |-> "none", arg |-> NoArg]
    /\ result' = Void
    /\ UNCHANGED <<canvas, history, storeVars, maxSizeArg, undoRun, redoTrack,
                   pushLog, menuTrack, storage, savedFrom, foreign, heap,
                   cleared, budget>>

NoColor == "null"

getCellColor(c, position) ==
    IF MapHas(c.cells, getCellKey(position))
    THEN MapGet(c.cells, getCellKey(position)).color
    ELSE NoColor

\* the INSPECT branch: store.getFocusedCellInfo() and the result built from it
inspectFocusedCell ==
    LET color == getCellColor(canvas, canvas.focus)
    IN  /\ Command("getFocusedCellInfo", NoArg,
                   [success |-> TRUE,
                    message |-> "Cell at " \o PosText(canvas.focus)
                                \o (IF color # NoColor THEN " is " \o color
                                    ELSE " is empty"),
                    position |-> canvas.focus,
                    color |-> color])
        /\ UNCHANGED <<canvas, history, storeVars>>

\* the branches of processIntent after the debounce check
dispatchIntent(intent) ==
    IF intent = "COLOR_MENU_NEXT" THEN nextColor
    ELSE IF intent = "COLOR_MENU_PREV" THEN prevColor
    ELSE IF intent = "COLOR_MENU_CONFIRM" THEN confirmColor
    ELSE IF intent = "COLOR_MENU_CANCEL" THEN closeColorMenu
    ELSE IF intent = "MENU"
    THEN (IF isColorMenuOpen THEN closeColorMenu ELSE openColorMenu)
    ELSE IF isMovementIntent(intent)
    THEN moveFocusDirection(intentToDirection(intent))
    ELSE IF intent = "PAINT" THEN \E t \in Readings : paintFocusedCell(t)
    ELSE IF intent = "ERASE" THEN \E t \in Readings : eraseFocusedCell(t)
    ELSE IF intent = "UNDO" THEN \E t \in Readings : performUndo(t)
    ELSE IF intent = "REDO" THEN \E t \in Readings : performRedo(t)
    ELSE IF intent = "HOME" THEN moveFocusHome
    ELSE IF intent = "INSPECT" THEN inspectFocusedCell
    ELSE NoCommand

\* variant: a suppressed intent restarts the interval
lastGestureTimeRestarted(now, last) == now

\* lastGestureTime.current after processIntent ran at `now`
lastGestureTimeAfter(now, last) ==
    IF now - last < GESTURE_DEBOUNCE_MS THEN last ELSE now

\* processIntent(intent), called by the recogniser `event` at time `now`
processIntent(event, direction, intent, now) ==
    LET passes == ~(now - gesture.lastGestureTime < GESTURE_DEBOUNCE_MS)
    IN  /\ gesture' =
              [gesture EXCEPT
                 !.now = now,
                 !.lastGestureTime = lastGestureTimeAfter(now, @),
                 !.event = event,
                 !.direction = direction,
                 !.menuWasOpen = isColorMenuOpen,
                 !.intent = intent,
                 !.dispatched = passes,
                 !.dispatchedAt = IF passes THEN now ELSE @,
                 !.dispatchedBefore =
                     IF passes THEN gesture.dispatchedAt ELSE @,
                 !.suppressedAt = IF passes THEN @ ELSE now]
        /\ IF passes THEN dispatchIntent(intent) ELSE NoCommand

\* the callback returns before processIntent is called
discardGesture(event, direction, now) ==
    /\ gesture' = [gesture EXCEPT !.now = now,
                                  !.event = event,
                                  !.direction = direction,
                                  !.menuWasOpen = isColorMenuOpen,
                                  !.intent = NoIntent,
                                  !.dispatched = FALSE]
    /\ NoCommand

\* variant: the swipe moves the focus whether the menu is open or not
panGestureIntentAlwaysMove(isMenuOpen, direction) ==
    swipeToMoveIntent(direction)

\* the intent panGesture.onEnd chooses for a detected swipe
panGestureIntent(isMenuOpen, direction) ==
    IF isMenuOpen
    THEN IF direction = "right" THEN "COLOR_MENU_NEXT"
         ELSE IF direction = "left" THEN "COLOR_MENU_PREV"
         ELSE NoIntent
    ELSE IF direction = "up" THEN "MOVE_UP"
         ELSE IF direction = "down" THEN "MOVE_DOWN"
         ELSE IF direction = "left" THEN "MOVE_LEFT"
         ELSE "MOVE_RIGHT"

panGestureOnEnd(pan, delay) ==
    LET direction == detectSwipeDirection(pan)
        now == gesture.now + delay
    IN  IF direction = NoDirection
        THEN discardGesture("pan", direction, now)
        ELSE IF panGestureIntent(isColorMenuOpen, direction) = NoIntent
        THEN discardGesture("pan", direction, now)
        ELSE processIntent("pan", direction,
                           panGestureIntent(isColorMenuOpen, direction), now)

tapGestureOnEnd(delay) ==
    processIntent("tap", NoDirection, mapTapToPaint, gesture.now + delay)

doubleTapGestureOnEnd(delay) ==
    processIntent("doubleTap", NoDirection,
                  IF isColorMenuOpen THEN "COLOR_MENU_CONFIRM"
                  ELSE mapDoubleTapToInspect,
                  gesture.now + delay)

longPressGestureOnEnd(delay) ==
    processIntent("longPress", NoDirection, mapLongPressToMenu,
                  gesture.now + delay)

InitHook == InitialState(MaxGestures) /\ gesture = HookMounted /\ heap = NoHeap
    /\ cleared = NoCleared

NextHook ==
    \/ \E pan \in HookPanInputs, delay \in DelayInputs : panGestureOnEnd(pan, delay)
    \/ \E delay \in DelayInputs : tapGestureOnEnd(delay)
    \/ \E delay \in DelayInputs : doubleTapGestureOnEnd(delay)
    \/ \E delay \in DelayInputs : longPressGestureOnEnd(delay)

SpecHook == InitHook /\ [][NextHook]_vars

(***************************************************************************)
(* app/canvas.tsx: the recognisers of the canvas screen.  A recogniser     *)
(* built with Gesture.LongPress().minDuration(d) becomes active once the   *)
(* finger has been down for d ms, and its onStart callback runs then;      *)
(* Gesture.Race lets the first recogniser that becomes active cancel the   *)
(* others.  A step is a callback, a timer of a held finger running out, or *)
(* the finger going down or up.                                            *)
(***************************************************************************)
LONG_PRESS_MS == 500
CONTEXT_LONG_PRESS_MS == 2000

\* the pans that end: one long enough each way, a short one, a diagonal one
ScreenPanInputs ==
    {[translationX |-> 80, translationY |-> 5],
     [translationX |-> -80, translationY |-> 5],
     [translationX |-> 5, translationY |-> 80],
     [translationX |-> 5, translationY |-> -80],
     [translationX |-> 30, translationY |-> 5],
     [translationX |-> 80, translationY |-> 80]}

\* isEraserMode is the screen's state; the other fields describe the finger:
\* whether it is down, the last timer it outlasted, the recogniser that won
\* the race, and the onStart callbacks run since it went down
ScreenMounted ==
    [layer |-> "screen", isEraserMode |-> FALSE, event |-> "mount",
     down |-> FALSE, heldFor |-> 0, active |-> "none", fired |-> << >>]

\* store.getFocusedCellInfo()
getFocusedCellInfo ==
    /\ Command("getFocusedCellInfo", NoArg,
               [row |-> canvas.focus.row, col |-> canvas.focus.col,
                color |-> getCellColor(canvas, canvas.focus)])
    /\ UNCHANGED <<canvas, history, storeVars>>

handlePaint ==
    IF gesture.isEraserMode
    THEN \E t \in Readings : eraseFocusedCell(t)
    ELSE \E t \in Readings : paintFocusedCell(t)

handleToggleEraser ==
    /\ gesture' = [gesture EXCEPT !.isEraserMode = ~@, !.event = "eraserButton"]
    /\ NoCommand

screenPanOnEnd(pan) ==
    LET absX == Abs(pan.translationX)
        absY == Abs(pan.translationY)
    IN  /\ ~gesture.down
        /\ gesture' = [gesture EXCEPT !.event = "pan"]
        /\ IF isColorMenuOpen
           THEN IF absX > absY /\ absX > 50
                THEN (IF pan.translationX > 0 THEN nextColor ELSE prevColor)
                ELSE NoCommand
           ELSE IF absX > absY /\ absX > 50
                THEN (IF pan.translationX > 0 THEN moveFocusDirection("right")
                      ELSE moveFocusDirection("left"))
                ELSE IF absY > absX /\ absY > 50
                THEN (IF pan.translationY > 0 THEN moveFocusDirection("down")
                      ELSE moveFocusDirection("up"))
                ELSE NoCommand

screenTapOnStart ==
    /\ ~gesture.down
    /\ gesture' = [gesture EXCEPT !.event = "tap"]
    /\ IF ~isColorMenuOpen THEN getFocusedCellInfo ELSE NoCommand

screenDoubleTapOnStart ==
    /\ ~gesture.down
    /\ gesture' = [gesture EXCEPT !.event = "doubleTap"]
    /\ IF isColorMenuOpen THEN confirmColor ELSE handlePaint

\* the finger goes down and stays
touchDown ==
    /\ ~gesture.down
    /\ gesture' = [gesture EXCEPT !.event = "touchDown", !.down = TRUE,
                                  !.heldFor = 0, !.active = "none",
                                  !.fired = << >>]
    /\ NoCommand

touchUp ==
    /\ gesture.down
    /\ gesture' = [gesture EXCEPT !.event = "touchUp", !.down = FALSE]
    /\ NoCommand

\* longPressGesture: minDuration(500), onStart toggles the colour menu
longPressGestureOnStart ==
    /\ gesture.down
    /\ gesture.heldFor = 0
    /\ IF gesture.active = "none"
       THEN /\ gesture' = [gesture EXCEPT !.event = "longPress",
                                          !.heldFor = LONG_PRESS_MS,
                                          !.active = "longPress",
                                          !.fired = Append(@, "longPress")]
            /\ IF isColorMenuOpen THEN closeColorMenu ELSE openColorMenu
       ELSE /\ gesture' = [gesture EXCEPT !.event = "longPress",
                                          !.heldFor = LONG_PRESS_MS]
            /\ NoCommand

\* contextLongPressGesture: minDuration(2000), onStart announces the context
contextLongPressGestureOnStart ==
    /\ gesture.down
    /\ gesture.heldFor = LONG_PRESS_MS
    /\ IF gesture.active = "none"
       THEN /\ gesture' = [gesture EXCEPT !.event = "contextLongPress",
                                          !.heldFor = CONTEXT_LONG_PRESS_MS,
                                          !.active = "contextLongPress",
                                          !.fired = Append(@, "contextLongPress")]
            /\ getFocusedCellInfo
       ELSE /\ gesture' = [gesture EXCEPT !.event = "contextLongPress",
                                          !.heldFor = CONTEXT_LONG_PRESS_MS]
            /\ NoCommand

InitScreen == InitialState(MaxTouches) /\ gesture = ScreenMounted /\ heap = NoHeap
    /\ cleared = NoCleared

NextScreen ==
    \/ \E pan \in ScreenPanInputs : screenPanOnEnd(pan)
    \/ screenTapOnStart
    \/ screenDoubleTapOnStart
    \/ handleToggleEraser
    \/ touchDown
    \/ longPressGestureOnStart
    \/ contextLongPressGestureOnStart
    \/ touchUp

SpecScreen == InitScreen /\ [][NextScreen]_vars

(***************************************************************************)
(* createCanvas and initializeCanvas, given dimensions that are positive   *)
(* integers, zero, negative, or fractions, on a store whose canvas may     *)
(* have been painted.                                                      *)
(***************************************************************************)
BadDimInputs == <<0, -1, Fraction(0), Fraction(1), Fraction(-1)>>

\* the pairs are listed, not collected in a set: integers and fractions do
\* not compare
CreateDimInputs ==
    <<<<MaxDim, 1>>, <<1, MaxDim>>>>
        \o [i \in 1..Len(BadDimInputs) |-> <<BadDimInputs[i], MaxDim>>]
        \o [i \in 1..Len(BadDimInputs) |-> <<MaxDim, BadDimInputs[i]>>]

CallCreateCanvas(width, height) ==
    LET config == [width |-> width, height |-> height]
    IN  /\ Call("createCanvas", config,
                IF createCanvasThrows(config)
                THEN Thrown(createCanvasError(config))
                ELSE createCanvas(config),
                NoSnapshot)
        /\ UNCHANGED <<canvas, history>>

InitCreate == InitialState(MaxCreateSteps) /\ gesture = NoGesture /\ heap = NoHeap
    /\ cleared = NoCleared

NextCreate ==
    \/ \E i \in 1..Len(CreateDimInputs) :
           CallCreateCanvas(CreateDimInputs[i][1], CreateDimInputs[i][2])
    \/ \E i \in 1..Len(CreateDimInputs) :
           initializeCanvas(CreateDimInputs[i][1], CreateDimInputs[i][2])
    \/ \E t \in Readings : paintFocusedCell(t)

SpecCreate == InitCreate /\ [][NextCreate]_vars

(***************************************************************************)
(* Object identity.  JavaScript positions, cells and Maps are objects held *)
(* by reference; here the heap is the sequence of the objects allocated so *)
(* far and a reference is an index into it.  The canvas functions and the  *)
(* snapshot functions are read again at this level: `{...x}`, `new Map()`  *)
(* and an object literal allocate, everything else passes references on.   *)
(* A snapshot and the stacks that hold it are records of references.       *)
(***************************************************************************)
MaxAliasCalls == 4     \* function applications in one behaviour with references

PositionObject(position) == [kind |-> "Position", value |-> position]
CellObject(cell) == [kind |-> "Cell", value |-> cell]
MapObject(entries) == [kind |-> "Map", value |-> entries]

\* a new object: the heap with it, and the reference to it
Allocated(hp, object) == [heap |-> Append(hp, object), ref |-> Len(hp) + 1]

\* map.set(key, ref) on the Map object at `map`, in place
MapSetInPlace(hp, map, key, ref) ==
    [hp EXCEPT ![map] = MapObject(MapSet(hp[map].value, key, ref))]

\* map.delete(key) on the Map object at `map`, in place
MapDeleteInPlace(hp, map, key) ==
    [hp EXCEPT ![map] = MapObject(MapDelete(hp[map].value, key))]

\* createCanvas: {config, focus: {row: 0, col: 0}, cells: new Map()}
createCanvasRef(hp, config) ==
    LET focus == Allocated(hp, PositionObject(Position(0, 0)))
        cells == Allocated(focus.heap, MapObject(EmptyMap))
    IN  [heap |-> cells.heap,
         canvas |-> [config |-> config, focus |-> focus.ref, cells |-> cells.ref]]

\* cells.forEach((cell, key) => cloned.set(key, {...cell})), from entry i on
RECURSIVE cloneEntries(_, _, _, _)
cloneEntries(hp, entries, i, cloned) ==
    IF i > Len(entries) THEN hp
    ELSE LET copy == Allocated(hp, CellObject(copyCell(hp[entries[i].value].value)))
         IN  cloneEntries(MapSetInPlace(copy.heap, cloned, entries[i].key, copy.ref),
                          entries, i + 1, cloned)

\* variant: new Map(cells), a new Map holding the same cell objects
cloneCellsMapSharing(hp, cells) ==
    Allocated(hp, MapObject(hp[cells].value))

cloneCellsMapRef(hp, cells) ==
    LET cloned == Allocated(hp, MapObject(EmptyMap))
    IN  [heap |-> cloneEntries(cloned.heap, hp[cells].value, 1, cloned.ref),
         ref |-> cloned.ref]

createSnapshotRef(hp, c, t) ==
    LET focus == Allocated(hp, PositionObject(hp[c.focus].value))
        cells == cloneCellsMapRef(focus.heap, c.cells)
    IN  [heap |-> cells.heap,
         snapshot |-> [focus |-> focus.ref, cells |-> cells.ref, timestamp |-> t]]

restoreFromSnapshotRef(hp, c, snapshot) ==
    LET focus == Allocated(hp, PositionObject(hp[snapshot.focus].value))
        cells == cloneCellsMapRef(focus.heap, snapshot.cells)
    IN  [heap |-> cells.heap,
         canvas |-> [c EXCEPT !.focus = focus.ref, !.cells = cells.ref]]

\* the position of a result is a copy nothing else holds: it is kept by value
paintCellRef(hp, c, color) ==
    LET focus == hp[c.focus].value
    IN  IF ~isValidColor(color)
        THEN [heap |-> hp, canvas |-> c,
              result |-> [success |-> FALSE, message |-> "Invalid color: " \o color]]
        ELSE LET cell == Allocated(hp, CellObject([row |-> focus.row,
                                                   col |-> focus.col,
                                                   color |-> color]))
                 newCells == Allocated(cell.heap, MapObject(hp[c.cells].value))
             IN  [heap |-> MapSetInPlace(newCells.heap, newCells.ref,
                                         getCellKey(focus), cell.ref),
                  canvas |-> [c EXCEPT !.cells = newCells.ref],
                  result |-> [success |-> TRUE,
                              message |-> "Painted cell at " \o PosText(focus)
                                          \o " with " \o color,
                              position |-> focus,
                              color |-> color]]

eraseCellRef(hp, c) ==
    LET focus == hp[c.focus].value
        key == getCellKey(focus)
    IN  IF ~MapHas(hp[c.cells].value, key)
        THEN [heap |-> hp, canvas |-> c,
              result |-> [success |-> FALSE,
                          message |-> "No cell to erase at " \o PosText(focus),
                          position |-> focus]]
        ELSE LET newCells == Allocated(hp, MapObject(hp[c.cells].value))
             IN  [heap |-> MapDeleteInPlace(newCells.heap, newCells.ref, key),
                  canvas |-> [c EXCEPT !.cells = newCells.ref],
                  result |-> [success |-> TRUE,
                              message |-> "Erased cell at " \o PosText(focus),
                              position |-> focus]]

\* the new position is one object, held by the canvas and by the result
moveFocusRef(hp, c, direction) ==
    LET focus == hp[c.focus].value
        newPosition == calculateNewPosition(focus, direction)
    IN  IF ~isValidPosition(newPosition, c.config)
        THEN [heap |-> hp, canvas |-> c,
              result |-> [success |-> FALSE,
                          message |-> "Cannot move " \o direction
                                      \o " - boundary reached",
                          position |-> focus]]
        ELSE LET moved == Allocated(hp, PositionObject(newPosition))
             IN  [heap |-> moved.heap,
                  canvas |-> [c EXCEPT !.focus = moved.ref],
                  result |-> [success |-> TRUE,
                              message |-> "Moved " \o direction \o " to "
                                          \o PosText(newPosition),
                              position |-> newPosition]]

clearAllCellsRef(hp, c) ==
    LET cells == Allocated(hp, MapObject(EmptyMap))
    IN  [heap |-> cells.heap, canvas |-> [c EXCEPT !.cells = cells.ref]]

\* `restored` is the snapshot handed to restoreFromSnapshot, or NoSnapshot
undoRef(hp, c, h, t) ==
    IF Len(h.undoStack) = 0
    THEN [heap |-> hp, canvas |-> c, history |-> h, restored |-> NoSnapshot,
          result |-> [success |-> FALSE, message |-> "Nothing to undo"]]
    ELSE LET current == createSnapshotRef(hp, c, t)
             previousSnapshot == h.undoStack[Len(h.undoStack)]
             newUndoStack == Popped(h.undoStack)
             newRedoStack == Append(h.redoStack, current.snapshot)
             restoredCanvas == restoreFromSnapshotRef(current.heap, c,
                                                      previousSnapshot)
         IN  [heap |-> restoredCanvas.heap,
              canvas |-> restoredCanvas.canvas,
              history |-> [h EXCEPT !.undoStack = newUndoStack,
                                    !.redoStack = newRedoStack],
              restored |-> previousSnapshot,
              result |-> [success |-> TRUE, message |-> "Undo successful",
                          position |->
                              restoredCanvas.heap[restoredCanvas.canvas.focus].value]]

redoRef(hp, c, h, t) ==
    IF Len(h.redoStack) = 0
    THEN [heap |-> hp, canvas |-> c, history |-> h, restored |-> NoSnapshot,
          result |-> [success |-> FALSE, message |-> "Nothing to redo"]]
    ELSE LET current == createSnapshotRef(hp, c, t)
             nextSnapshot == h.redoStack[Len(h.redoStack)]
             newRedoStack == Popped(h.redoStack)
             newUndoStack == Append(h.undoStack, current.snapshot)
             trimmedUndoStack ==
                 IF Len(newUndoStack) > h.maxHistorySize
                 THEN SliceLast(newUndoStack, h.maxHistorySize)
                 ELSE newUndoStack
             restoredCanvas == restoreFromSnapshotRef(current.heap, c, nextSnapshot)
         IN  [heap |-> restoredCanvas.heap,
              canvas |-> restoredCanvas.canvas,
              history |-> [h EXCEPT !.undoStack = trimmedUndoStack,
                                    !.redoStack = newRedoStack],
              restored |-> nextSnapshot,
              result |-> [success |-> TRUE, message |-> "Redo successful",
                          position |->
                              restoredCanvas.heap[restoredCanvas.canvas.focus].value]]

(***************************************************************************)
(* The pure functions applied in any order to a one-row canvas, with       *)
(* references.  The store's destructive commands are createSnapshot and    *)
(* pushUndo followed by paintCell, eraseCell or clearAllCells.             *)
(***************************************************************************)
AliasColorInputs == {"#FF0000", "Red"}
AliasDirectionInputs == {"left", "right", "up"}

AliasCall(name, arg, res) ==
    /\ steps < budget
    /\ steps' = steps + 1
    /\ op' = [name |-> name, arg |-> arg]
    /\ result' = res
    /\ UNCHANGED <<storeVars, maxSizeArg, undoRun, redoTrack, pushLog,
                   menuTrack, storage, savedFrom, foreign, gesture, cleared,
                   budget>>

InitAlias ==
    LET created == createCanvasRef(NoHeap, [width |-> MaxDim, height |-> 1])
    IN  /\ heap = created.heap
        /\ canvas = created.canvas
        /\ history = createHistory(MaxHistoryArg)
        /\ maxSizeArg = MaxHistoryArg
        /\ selectedColor = DEFAULT_COLOR
        /\ isColorMenuOpen = FALSE
        /\ colorMenuIndex = 0
        /\ previousColor = DEFAULT_COLOR
        /\ focusPosition = Position(0, 0)
        /\ canUndo = FALSE
        /\ canRedo = FALSE
        /\ op = [name |-> "createCanvas", arg |-> NoArg]
        /\ result = Void
        /\ steps = 0
        /\ undoRun = NoRun
        /\ redoTrack = "none"
        /\ pushLog = NoLog
        /\ menuTrack = NoMenu
        /\ storage = EmptyMap
        /\ savedFrom = EmptyMap
        /\ foreign = NoForeign
        /\ gesture = NoGesture
        /\ cleared = NoCleared
        /\ budget = MaxAliasCalls

AliasPaintCell(color) ==
    LET r == paintCellRef(heap, canvas, color)
    IN  /\ AliasCall("paintCell", color, r.result)
        /\ heap' = r.heap
        /\ canvas' = r.canvas
        /\ UNCHANGED history

AliasEraseCell ==
    LET r == eraseCellRef(heap, canvas)
    IN  /\ AliasCall("eraseCell", NoArg, r.result)
        /\ heap' = r.heap
        /\ canvas' = r.canvas
        /\ UNCHANGED history

AliasMoveFocus(direction) ==
    LET r == moveFocusRef(heap, canvas, direction)
    IN  /\ AliasCall("moveFocus", direction, r.result)
        /\ heap' = r.heap
        /\ canvas' = r.canvas
        /\ UNCHANGED history

AliasClearAllCells ==
    LET r == clearAllCellsRef(heap, canvas)
    IN  /\ AliasCall("clearAllCells", NoArg, Void)
        /\ heap' = r.heap
        /\ canvas' = r.canvas
        /\ UNCHANGED history

AliasPushUndo(t) ==
    LET r == createSnapshotRef(heap, canvas, t)
    IN  /\ AliasCall("pushUndo", r.snapshot, Void)
        /\ heap' = r.heap
        /\ history' = pushUndo(history, r.snapshot)
        /\ UNCHANGED canvas

AliasUndo(t) ==
    LET r == undoRef(heap, canvas, history, t)
    IN  /\ AliasCall("undo", r.restored, r.result)
        /\ heap' = r.heap
        /\ canvas' = r.canvas
        /\ history' = r.history

AliasRedo(t) ==
    LET r == redoRef(heap, canvas, history, t)
    IN  /\ AliasCall("redo", r.restored, r.result)
        /\ heap' = r.heap
        /\ canvas' = r.canvas
        /\ history' = r.history

\* restoreFromSnapshot applied to a snapshot that stays on its stack
AliasRestoreFromSnapshot(snapshot) ==
    LET r == restoreFromSnapshotRef(heap, canvas, snapshot)
    IN  /\ AliasCall("restoreFromSnapshot", snapshot, Void)
        /\ heap' = r.heap
        /\ canvas' = r.canvas
        /\ UNCHANGED history

\* the snapshots held in undoStack or redoStack
HeldSnapshots(h) ==
    {h.undoStack[i] : i \in 1..Len(h.undoStack)}
        \cup {h.redoStack[i] : i \in 1..Len(h.redoStack)}

NextAlias ==
    \/ \E color \in AliasColorInputs : AliasPaintCell(color)
    \/ AliasEraseCell
    \/ \E direction \in AliasDirectionInputs : AliasMoveFocus(direction)
    \/ AliasClearAllCells
    \/ \E t \in Readings : AliasPushUndo(t)
    \/ \E t \in Readings : AliasUndo(t)
    \/ \E t \in Readings : AliasRedo(t)
    \/ \E snapshot \in HeldSnapshots(history) : AliasRestoreFromSnapshot(snapshot)

SpecAlias == InitAlias /\ [][NextAlias]_vars

(***************************************************************************)
(* Vocabulary of the properties                                            *)
(***************************************************************************)
Min(a, b) == IF a <= b THEN a ELSE b

\* the key the spec gives a cell: "{row},{col}"
KeyOf(row, col) == ToString(row) \o "," \o ToString(col)
FocusKey(c) == KeyOf(c.focus.row, c.focus.col)

\* a cell map read as a mapping, forgetting the insertion order
AsMapping(m) == [k \in MapKeys(m) |-> MapGet(m, k)]
NoDuplicateKeys(m) == Cardinality(MapKeys(m)) = Len(m)

InGrid(row, col, config) ==
    /\ 0 <= row /\ row < config.height
    /\ 0 <= col /\ col < config.width

\* the step is a real call of `name` (not a stuttering step)
Called(name) == op'.name = name /\ steps' = steps + 1

(***************************************************************************)
(* C1: in every reachable store state the focus lies inside the grid:      *)
(* 0 <= row < config.height and 0 <= col < config.width.                   *)
(***************************************************************************)
C1_FocusInBounds ==
    InGrid(canvas.focus.row, canvas.focus.col, canvas.config)

\* a move was refused at the last row of the grid
C1_Witness ==
    /\ op.name = "moveFocusDirection"
    /\ op.arg = "down"
    /\ ~result.success
    /\ ~isColorMenuOpen
    /\ canvas.focus.row = canvas.config.height - 1

(***************************************************************************)
(* C2: every entry of canvas.cells is stored under the key "row,col" of    *)
(* its own row and col, lies inside the grid and carries a colour that     *)
(* isValidColor accepts; a paint with a selectedColor that isValidColor    *)
(* rejects never adds an entry.                                            *)
(***************************************************************************)
CellsWellFormed(c) ==
    /\ NoDuplicateKeys(c.cells)
    /\ \A i \in 1..Len(c.cells) :
          LET e == c.cells[i]
          IN  /\ e.key = KeyOf(e.value.row, e.value.col)
              /\ InGrid(e.value.row, e.value.col, c.config)
              /\ isValidColor(e.value.color)

Candidate(focus, direction) ==
    [row |-> focus.row + (IF direction = "down" THEN 1
                          ELSE IF direction = "up" THEN -1 ELSE 0),
     col |-> focus.col + (IF direction = "right" THEN 1
                          ELSE IF direction = "left" THEN -1 ELSE 0)]

C3_MoveFocus ==
    [][Called("moveFocus") =>
        LET cand == Candidate(canvas.focus, op'.arg)
        IN  IF InGrid(cand.row, cand.col, canvas.config)
            THEN /\ result'.success
                 /\ canvas'.focus = cand
                 /\ canvas'.cells = canvas.cells
                 /\ canvas'.config = canvas.config
            ELSE /\ ~result'.success
                 /\ canvas' = canvas]_vars

\* a move succeeded on a canvas that holds a painted cell
C3_Witness ==
    /\ op.name = "moveFocus"
    /\ result.success
    /\ Len(canvas.cells) > 0

(***************************************************************************)
(* C4: paintCell with a valid colour overwrites whatever is at the focus:  *)
(* the resulting cells equal the input cells except that the focus key     *)
(* maps to {focus.row, focus.col, color}; every other cell, the focus and  *)
(* the config are unchanged, and the result carries success=true with the  *)
(* focus position and the colour.                                          *)
(***************************************************************************)
C4_PaintOverwrites ==
    [][(Called("paintCell") /\ isValidColor(op'.arg)) =>
        LET fk == FocusKey(canvas)
            cell == [row |-> canvas.focus.row, col |-> canvas.focus.col,
                     color |-> op'.arg]
        IN  /\ result'.success
            /\ result'.position = canvas.focus
            /\ result'.color = op'.arg
            /\ canvas'.focus = canvas.focus
            /\ canvas'.config = canvas.config
            /\ NoDuplicateKeys(canvas'.cells)
            /\ AsMapping(canvas'.cells) =
                 [k \in MapKeys(canvas.cells) \cup {fk} |->
                     IF k = fk THEN cell ELSE MapGet(canvas.cells, k)]]_vars

\* the focus was painted over a cell of another colour, which the last
\* snapshot pushed still shows
C4_Witness ==
    /\ op.name = "paintCell"
    /\ result.success
    /\ Len(history.undoStack) > 0
    /\ LET snap == history.undoStack[Len(history.undoStack)]
       IN  /\ snap.focus = canvas.focus
           /\ MapHas(snap.cells, FocusKey(canvas))
           /\ MapGet(snap.cells, FocusKey(canvas)).color # op.arg
           /\ MapGet(canvas.cells, FocusKey(canvas)).color = op.arg

(***************************************************************************)
(* C5: eraseCell returns success=false and the canvas unchanged exactly    *)
(* when no cell exists at the focus; otherwise it removes exactly the      *)
(* focus cell, leaving every other cell, the focus and the config          *)
(* unchanged.                                                              *)
(***************************************************************************)
C5_EraseCell ==
    [][Called("eraseCell") =>
        LET fk == FocusKey(canvas)
        IN  IF fk \notin MapKeys(canvas.cells)
            THEN /\ ~result'.success
                 /\ canvas' = canvas
            ELSE /\ result'.success
                 /\ canvas'.focus = canvas.focus
                 /\ canvas'.config = canvas.config
                 /\ NoDuplicateKeys(canvas'.cells)
                 /\ AsMapping(canvas'.cells) =
                      [k \in MapKeys(canvas.cells) \ {fk} |->
                          MapGet(canvas.cells, k)]]_vars

\* a cell was erased and another cell is still there
C5_Witness ==
    /\ op.name = "eraseCell"
    /\ result.success
    /\ Len(canvas.cells) > 0

(***************************************************************************)
(* C6: idempotence of paint: painting the focused cell twice with the same *)
(* colour at the same focus yields the same CanvasState as painting once.  *)
(* The state is the one a successful paintCell left; painting it again     *)
(* with the colour of that call gives the same canvas.                     *)
(***************************************************************************)
C6_PaintIdempotent ==
    (op.name = "paintCell" /\ result.success) =>
        /\ paintCell(canvas, op.arg).result.success
        /\ paintCell(canvas, op.arg).canvas = canvas

\* a cell was painted beside another painted cell
C6_Witness ==
    /\ op.name = "paintCell"
    /\ result.success
    /\ Len(canvas.cells) > 1

C8_EvictionFIFO ==
    pushLog.valid =>
        LET n == Len(pushLog.pushed)
            m == Min(n, history.maxHistorySize)
            u == pushLog.undos
        IN  /\ u <= m
            /\ history.undoStack = SubSeq(pushLog.pushed, n - m + 1, n - u)
            /\ (op.name = "undo" /\ result.success) =>
                  /\ n - u + 1 > n - m
                  /\ canvas.focus = pushLog.pushed[n - u + 1].focus
                  /\ canvas.cells = pushLog.pushed[n - u + 1].cells

\* maxHistorySize + 1 snapshots were pushed, every surviving one was undone
\* and a further undo found nothing: the first snapshot was not reached
C8_Witness ==
    /\ pushLog.valid
    /\ Len(pushLog.pushed) = history.maxHistorySize + 1
    /\ pushLog.undos = history.maxHistorySize
    /\ op.name = "undo"
    /\ ~result.success

(***************************************************************************)
(* C9: redo invalidation: every successful paint, erase or clear leaves    *)
(* redoStack empty, so a performRedo that follows it (in particular after  *)
(* a performUndo and a new paint) returns success=false, 'Nothing to       *)
(* redo', and leaves canvas and history unchanged.                         *)
(***************************************************************************)
Destructive(name, res) ==
    \/ name = "clearCanvas"
    \/ name \in {"paintFocusedCell", "eraseFocusedCell"} /\ res.success

C9_RedoInvalidated ==
    /\ [][(steps' = steps + 1 /\ Destructive(op'.name, result'))
            => Len(history'.redoStack) = 0]_vars
    /\ [][(Called("performRedo")
             /\ (Destructive(op.name, result) \/ redoTrack = "diverged"))
            => /\ ~result'.success
               /\ result'.message = "Nothing to redo"
               /\ canvas' = canvas
               /\ history' = history]_vars

\* undo, then a new paint, erase or clear, then a redo that was refused
C9_Witness ==
    /\ redoTrack = "redoTried"
    /\ op.name = "performRedo"
    /\ ~result.success
    /\ Len(canvas.cells) > 0

(***************************************************************************)
(* C10: from a store state with an empty undo stack, after k successful    *)
(* paintFocusedCell calls (1 <= k <= maxHistorySize) followed by k         *)
(* performUndo calls the canvas (cells and focus) equals its state before  *)
(* the first paint; one further performUndo returns success=false,         *)
(* 'Nothing to undo', and leaves the canvas unchanged.                     *)
(***************************************************************************)
C10_PaintsThenUndos ==
    (undoRun.active /\ undoRun.k <= history.maxHistorySize) =>
        /\ (undoRun.j = undoRun.k) =>
              /\ canvas.cells = undoRun.base.cells
              /\ canvas.focus = undoRun.base.focus
              /\ result.success
        /\ (undoRun.j = undoRun.k + 1) =>
              /\ ~result.success
              /\ result.message = "Nothing to undo"
              /\ canvas = undoRun.base

\* the paints were all undone and one more undo was refused
C10_Witness ==
    /\ undoRun.active
    /\ undoRun.j = undoRun.k + 1
    /\ op.name = "performUndo"
    /\ ~result.success

(***************************************************************************)
(* C11 (SpecPure).  undo on a history whose undo stack is empty, and redo  *)
(* on a history whose redo stack is empty, return a result (they do not    *)
(* raise) with success = false, the canvas they were given and the history *)
(* they were given.                                                        *)
(***************************************************************************)
C11_EmptyUndoRedo ==
    [][ /\ (Called("undo") /\ Len(history.undoStack) = 0) =>
              /\ result'.success = FALSE
              /\ canvas' = canvas
              /\ history' = history
        /\ (Called("redo") /\ Len(history.redoStack) = 0) =>
              /\ result'.success = FALSE
              /\ canvas' = canvas
              /\ history' = history ]_vars

\* an undo refused on an empty undo stack while a redo is still available
C11_Witness ==
    /\ op.name = "undo"
    /\ result.success = FALSE
    /\ Len(history.undoStack) = 0
    /\ Len(history.redoStack) > 0

\* a stack without its timestamps: the cells and the focus of each snapshot
StripTimestamps(stack) ==
    [i \in 1..Len(stack) |-> [focus |-> stack[i].focus, cells |-> stack[i].cells]]

(***************************************************************************)
(* C12 (SpecPure).  After a successful undo, a redo puts back the cells    *)
(* and the focus the canvas had before the undo, and both stacks hold the  *)
(* same snapshots (cells and focus, timestamps ignored) in the same order  *)
(* as before the undo.  Likewise an undo after a successful redo.          *)
(***************************************************************************)
C12_UndoRedoInverse ==
    [][ /\ (Called("undo") /\ result'.success) =>
              \A t \in Clock :
                  LET r == redo(canvas', history', t)
                  IN  /\ r.result.success
                      /\ r.canvas.cells = canvas.cells
                      /\ r.canvas.focus = canvas.focus
                      /\ StripTimestamps(r.history.undoStack)
                             = StripTimestamps(history.undoStack)
                      /\ StripTimestamps(r.history.redoStack)
                             = StripTimestamps(history.redoStack)
        /\ (Called("redo") /\ result'.success) =>
              \A t \in Clock :
                  LET r == undo(canvas', history', t)
                  IN  /\ r.result.success
                      /\ r.canvas.cells = canvas.cells
                      /\ r.canvas.focus = canvas.focus
                      /\ StripTimestamps(r.history.undoStack)
                             = StripTimestamps(history.undoStack)
                      /\ StripTimestamps(r.history.redoStack)
                             = StripTimestamps(history.redoStack) ]_vars

\* an undo that changed the cells, with snapshots left on both stacks
C12_Witness ==
    /\ op.name = "undo"
    /\ result.success
    /\ Len(history.undoStack) > 0
    /\ history.redoStack[Len(history.redoStack)].cells # canvas.cells

\* the commands that change the cells, and whether one succeeded
\* (clearCanvas returns nothing and always succeeds)
CellCommands == {"paintFocusedCell", "eraseFocusedCell", "clearCanvas"}
Succeeded(name, res) == IF name = "clearCanvas" THEN TRUE ELSE res.success

(***************************************************************************)
(* C13 (Spec).  A successful paintFocusedCell, eraseFocusedCell or         *)
(* clearCanvas pushes exactly one snapshot onto the undo stack, holding    *)
(* the cells and the focus the canvas had before the command; a failed one *)
(* leaves the canvas, the undo stack and the redo stack unchanged.         *)
(***************************************************************************)
C13_SnapshotPerEdit ==
    [][ \A name \in CellCommands :
          Called(name) =>
            IF Succeeded(name, result')
            THEN LET n == Len(history.undoStack)
                 IN  /\ Len(history'.undoStack) = n + 1
                     /\ SubSeq(history'.undoStack, 1, n) = history.undoStack
                     /\ history'.undoStack[n + 1].cells = canvas.cells
                     /\ history'.undoStack[n + 1].focus = canvas.focus
            ELSE /\ canvas' = canvas
                 /\ history' = history ]_vars

\* a paint refused for its colour while a redo is still available
C13_Witness ==
    /\ op.name = "paintFocusedCell"
    /\ result.success = FALSE
    /\ ~isColorMenuOpen
    /\ Len(history.redoStack) > 0

(***************************************************************************)
(* C14 (SpecMenu).  After a successful openColorMenu, any number of        *)
(* nextColor / prevColor and then closeColorMenu, the selected colour is   *)
(* the one selected before the menu was opened and the menu is closed.     *)
(***************************************************************************)
C14_CancelRestores ==
    menuTrack.phase \in {"cancelled", "recancelled"} =>
        /\ selectedColor = menuTrack.before
        /\ ~isColorMenuOpen

\* a cancel after browsing away from the colour the menu opened on
C14_Witness ==
    /\ menuTrack.phase = "cancelled"
    /\ op.name = "closeColorMenu"
    /\ colorAt(colorMenuIndex) # selectedColor

\* the colour-menu part of the store
menuState == <<isColorMenuOpen, selectedColor, colorMenuIndex, previousColor>>

(***************************************************************************)
(* C15 (Spec).  nextColor, prevColor, confirmColor and closeColorMenu      *)
(* return success = false while the menu is closed, openColorMenu returns  *)
(* success = false while it is open, and in each of these cases            *)
(* isColorMenuOpen, selectedColor, colorMenuIndex and previousColor keep   *)
(* their values.                                                           *)
(***************************************************************************)
C15_MenuGuards ==
    [][ /\ \A name \in MenuCommands \ {"openColorMenu"} :
              (Called(name) /\ ~isColorMenuOpen) =>
                  /\ result'.success = FALSE
                  /\ menuState' = menuState
        /\ (Called("openColorMenu") /\ isColorMenuOpen) =>
              /\ result'.success = FALSE
              /\ menuState' = menuState ]_vars

\* a close refused on a closed menu whose selected colour is not the one a
\* close would restore
C15_Witness ==
    /\ op.name = "closeColorMenu"
    /\ result.success = FALSE
    /\ ~isColorMenuOpen
    /\ selectedColor # previousColor

(***************************************************************************)
(* C16 (SpecMenu).  While the menu is open, nextColor sets colorMenuIndex  *)
(* to (index + 1) mod 12 and prevColor to (index - 1 + 12) mod 12, and     *)
(* each sets selectedColor to the palette entry at the new index; the      *)
(* index stays in 0..11; a next followed by a prev, or a prev followed by  *)
(* a next, returns to the index it started from; twelve consecutive nexts  *)
(* return to the index they started from.                                  *)
(***************************************************************************)
C16_PaletteCycle ==
    /\ [](colorMenuIndex \in 0..11)
    /\ [](menuTrack.nexts = 12 => colorMenuIndex = menuTrack.start)
    /\ [][ /\ (Called("nextColor") /\ isColorMenuOpen) =>
                 /\ colorMenuIndex' = (colorMenuIndex + 1) % 12
                 /\ selectedColor' = AVAILABLE_COLORS[colorMenuIndex' + 1]
           /\ (Called("prevColor") /\ isColorMenuOpen) =>
                 /\ colorMenuIndex' = (colorMenuIndex - 1 + 12) % 12
                 /\ selectedColor' = AVAILABLE_COLORS[colorMenuIndex' + 1]
           /\ (Called("prevColor") /\ isColorMenuOpen /\ op.name = "nextColor") =>
                 colorMenuIndex' = menuTrack.from
           /\ (Called("nextColor") /\ isColorMenuOpen /\ op.name = "prevColor") =>
                 colorMenuIndex' = menuTrack.from ]_vars

\* twelve nexts in a row
C16_Witness ==
    /\ menuTrack.nexts = 12
    /\ op.name = "nextColor"
    /\ isColorMenuOpen

(***************************************************************************)
(* C17 (SpecMenu).  confirmColor on an open menu closes it, keeps the      *)
(* colour browsed to as selectedColor and stores it in previousColor; the  *)
(* next openColorMenu starts with colorMenuIndex at the palette index of   *)
(* the confirmed colour (when it is a palette entry), and a cancel of      *)
(* that session restores the confirmed colour.                             *)
(***************************************************************************)
C17_ConfirmCommits ==
    /\ (menuTrack.phase = "confirmed") =>
            (/\ ~isColorMenuOpen
             /\ selectedColor = menuTrack.confirmed
             /\ previousColor = menuTrack.confirmed)
    /\ (menuTrack.phase = "reopened" /\ op.name = "openColorMenu"
            /\ indexOfColor(menuTrack.confirmed) >= 0) =>
            (/\ isColorMenuOpen
             /\ colorMenuIndex = indexOfColor(menuTrack.confirmed))
    /\ (menuTrack.phase = "recancelled") =>
            (/\ ~isColorMenuOpen
             /\ selectedColor = menuTrack.confirmed)

\* a colour browsed to and confirmed, the menu reopened, another colour
\* browsed to, and the session cancelled
C17_Witness ==
    /\ menuTrack.phase = "recancelled"
    /\ menuTrack.confirmed # DEFAULT_COLOR
    /\ colorAt(colorMenuIndex) # selectedColor

(***************************************************************************)
(* C18 (Spec).  While the colour menu is open, moveFocusDirection and      *)
(* paintFocusedCell return success = false and leave the canvas (focus and *)
(* cells), the history and the colour-menu state unchanged.                *)
(***************************************************************************)
C18_MenuBlocksCanvas ==
    [][ \A name \in {"moveFocusDirection", "paintFocusedCell"} :
          (Called(name) /\ isColorMenuOpen) =>
              /\ result'.success = FALSE
              /\ canvas' = canvas
              /\ history' = history
              /\ focusPosition' = focusPosition
              /\ menuState' = menuState ]_vars

\* a move refused under the open menu although the grid had room for it
C18_Witness ==
    /\ op = [name |-> "moveFocusDirection", arg |-> "right"]
    /\ result.success = FALSE
    /\ isColorMenuOpen
    /\ canvas.focus.col + 1 < canvas.config.width

\* the { row, col, color } triples of the painted cells of a canvas
Triples(c) == {cellTriple(c.cells[i].value) : i \in 1..Len(c.cells)}

\* the same cells, held by the Map in every possible order
Reorderings(cells) ==
    {[i \in 1..Len(cells) |-> cells[f[i]]] : f \in Permutations(1..Len(cells))}

\* (row, col) of a comes strictly before (row, col) of b
RowMajorBefore(a, b) == a.row < b.row \/ (a.row = b.row /\ a.col < b.col)

(***************************************************************************)
(* C19 (SpecExport).  canvasToJSON returns exactly one {row, col, color}   *)
(* entry per painted cell, in strictly ascending (row, col) order whatever *)
(* the order the cells were painted in, together with the width, the       *)
(* height and version 1, and no focus; canvases holding the same cells in  *)
(* any other order yield the same cells array.                             *)
(***************************************************************************)
C19_CanonicalExport ==
    op.name = "canvasToJSON" =>
        LET cells == result.canvas.cells
        IN  /\ Len(cells) = Len(canvas.cells)
            /\ {cells[i] : i \in 1..Len(cells)} = Triples(canvas)
            /\ \A i, j \in 1..Len(cells) :
                   i < j => RowMajorBefore(cells[i], cells[j])
            /\ result.canvas.width = canvas.config.width
            /\ result.canvas.height = canvas.config.height
            /\ result.version = 1
            /\ "focus" \notin DOMAIN result
            /\ "focus" \notin DOMAIN result.canvas
            /\ \A other \in Reorderings(canvas.cells), t \in Clock :
                   canvasToJSON([canvas EXCEPT !.cells = other], t).canvas.cells
                       = cells

\* an export of two cells painted against the row-major order: the first
\* painted lies in a later row and an earlier column than the second
C19_Witness ==
    /\ op.name = "canvasToJSON"
    /\ Len(canvas.cells) = 2
    /\ canvas.cells[1].value.row > canvas.cells[2].value.row
    /\ canvas.cells[1].value.col < canvas.cells[2].value.col

C21_LoadAllOrNothing ==
    op.name = "loadCanvas" =>
        LET key == CANVAS_STORAGE_PREFIX \o op.arg
            rejected == /\ result.success = FALSE
                        /\ "canvas" \notin DOMAIN result
        IN  /\ result.success \in BOOLEAN
            /\ ~MapHas(storage, key) => rejected
            /\ (op.arg = foreign.id /\ foreign.kind # "intact") => rejected
            /\ result.success =>
                  /\ "canvas" \in DOMAIN result
                  /\ \/ /\ op.arg = foreign.id
                        /\ foreign.kind = "intact"
                        /\ result.canvas.config = LegacyCanvas.config
                        /\ result.canvas.focus = LegacyCanvas.focus
                        /\ Triples(result.canvas) = Triples(LegacyCanvas)
                     \/ /\ MapHas(savedFrom, op.arg)
                        /\ Triples(result.canvas)
                               = Triples(MapGet(savedFrom, op.arg))

\* a load refused for a focus that is an array: typeof gives "object" for it
C21_Witness ==
    /\ op = [name |-> "loadCanvas", arg |-> LegacyId]
    /\ foreign.path = [in |-> "canvas", field |-> "focus"]
    /\ foreign.kind = "array"
    /\ result.success = FALSE

\* the colours of the painted cells, and where each colour is painted
ColorsUsed(c) == {c.cells[i].value.color : i \in 1..Len(c.cells)}
PaintedAs(c, color) ==
    {<<c.cells[i].value.row, c.cells[i].value.col>> :
        i \in {j \in 1..Len(c.cells) : c.cells[j].value.color = color}}

\* the maximal stretches of at least three consecutive columns of one row,
\* and of at least three consecutive rows of one column
MaximalRowRuns(at) ==
    {run \in [row : 0..(MaxLineDim - 1), startCol : 0..(MaxLineDim - 1),
              endCol : 0..(MaxLineDim - 1)] :
        /\ run.endCol - run.startCol + 1 >= 3
        /\ \A col \in run.startCol..run.endCol : <<run.row, col>> \in at
        /\ <<run.row, run.startCol - 1>> \notin at
        /\ <<run.row, run.endCol + 1>> \notin at}
MaximalColRuns(at) ==
    {run \in [col : 0..(MaxLineDim - 1), startRow : 0..(MaxLineDim - 1),
              endRow : 0..(MaxLineDim - 1)] :
        /\ run.endRow - run.startRow + 1 >= 3
        /\ \A row \in run.startRow..run.endRow : <<row, run.col>> \in at
        /\ <<run.startRow - 1, run.col>> \notin at
        /\ <<run.endRow + 1, run.col>> \notin at}

\* the lines of a description that belong to one colour: from the line
\* after the colour's heading to the next blank line
Section(lines, c, color) ==
    LET heading == groupHeader(color, Cardinality(PaintedAs(c, color)))
        first == CHOOSE i \in 1..Len(lines) : lines[i] = heading
        last == CHOOSE j \in first..Len(lines) :
                   /\ \A k \in (first + 1)..j : lines[k] # ""
                   /\ j = Len(lines) \/ lines[j + 1] = ""
    IN  SubSeq(lines, first + 1, last)
HasSection(lines, c, color) ==
    LET heading == groupHeader(color, Cardinality(PaintedAs(c, color)))
    IN  \E i \in 1..Len(lines) : lines[i] = heading

\* every text a run entry or a cell entry can have on the grid
RowRunLines ==
    {horizontalLine(run) :
        run \in [row : 0..(MaxLineDim - 1), startCol : 0..(MaxLineDim - 1),
                 endCol : 0..(MaxLineDim - 1)]}
ColRunLines ==
    {verticalLine(run) :
        run \in [col : 0..(MaxLineDim - 1), startRow : 0..(MaxLineDim - 1),
                 endRow : 0..(MaxLineDim - 1)]}
Entries(section, texts) == {i \in 1..Len(section) : section[i] \in texts}

InReportedRun(section, cell) ==
    \/ \E run \in [row : {cell.row}, startCol : 0..cell.col,
                    endCol : cell.col..(MaxLineDim - 1)] :
          \E i \in 1..Len(section) : section[i] = horizontalLine(run)
    \/ \E run \in [col : {cell.col}, startRow : 0..cell.row,
                    endRow : cell.row..(MaxLineDim - 1)] :
          \E i \in 1..Len(section) : section[i] = verticalLine(run)

(***************************************************************************)
(* C23 (SpecDescribe).  In the description of a canvas every painted cell  *)
(* is covered by a run entry of its colour's section or has a cell entry   *)
(* of its own there.                                                       *)
(***************************************************************************)
C23_EveryCellDescribed ==
    op.name = "canvasToDescription" =>
        \A i \in 1..Len(canvas.cells) :
            LET cell == canvas.cells[i].value
            IN  /\ HasSection(result, canvas, cell.color)
                /\ LET section == Section(result, canvas, cell.color)
                   IN  \/ InReportedRun(section, cell)
                       \/ \E k \in 1..Len(section) : section[k] = cellLine(cell)

(***************************************************************************)
(* C24 (SpecSwipe).  detectSwipeDirection gives no direction when          *)
(* vx^2 + vy^2 < 500^2.  Otherwise it gives right or left by the sign of   *)
(* dx when |dx| > |dy|, down or up by the sign of dy when |dy| > |dx|, and *)
(* no direction when |dx| = |dy|, dx = dy = 0 included.                    *)
(***************************************************************************)
C24_SwipeDirection ==
    op.name = "detectSwipeDirection" =>
        LET dx == op.arg.translationX
            dy == op.arg.translationY
            vx == op.arg.velocityX
            vy == op.arg.velocityY
        IN  IF vx * vx + vy * vy < 500 * 500 THEN result = NoDirection
            ELSE /\ (Abs(dx) > Abs(dy) /\ dx > 0) => result = "right"
                 /\ (Abs(dx) > Abs(dy) /\ dx < 0) => result = "left"
                 /\ (Abs(dy) > Abs(dx) /\ dy > 0) => result = "down"
                 /\ (Abs(dy) > Abs(dx) /\ dy < 0) => result = "up"
                 /\ Abs(dx) = Abs(dy) => result = NoDirection

\* a fast diagonal pan is dropped
C24_Witness ==
    /\ op.name = "detectSwipeDirection"
    /\ op.arg.translationX = MaxTranslation
    /\ op.arg.translationY = -MaxTranslation
    /\ op.arg.velocityX = 354
    /\ op.arg.velocityY = -354
    /\ result = NoDirection

\* the step is the callback of recogniser `event`
Recognised(event) == steps' # steps /\ gesture'.event = event
StoreUntouched == op'.name = "none" /\ UNCHANGED <<canvas, history, storeVars>>

(***************************************************************************)
(* C25 (SpecHook).  A pan that ends as a swipe is given the intent         *)
(* MOVE_UP/DOWN/LEFT/RIGHT of its direction when the colour menu is        *)
(* closed.  When the menu is open a right swipe is given COLOR_MENU_NEXT,  *)
(* a left swipe COLOR_MENU_PREV, and an up or down swipe no intent: no     *)
(* store command is issued and canvas, history and store fields stay as    *)
(* they are.  An intent that gets past the debounce issues its command.    *)
(***************************************************************************)
C25_SwipeIntents ==
    [][(Recognised("pan") /\ gesture'.direction # NoDirection) =>
          /\ IF isColorMenuOpen
             THEN /\ (gesture'.direction = "right")
                        => (gesture'.intent = "COLOR_MENU_NEXT")
                  /\ (gesture'.direction = "left")
                        => (gesture'.intent = "COLOR_MENU_PREV")
                  /\ (gesture'.direction \in {"up", "down"})
                        => (gesture'.intent = NoIntent /\ StoreUntouched)
             ELSE /\ (gesture'.direction = "up") => (gesture'.intent = "MOVE_UP")
                  /\ (gesture'.direction = "down")
                        => (gesture'.intent = "MOVE_DOWN")
                  /\ (gesture'.direction = "left")
                        => (gesture'.intent = "MOVE_LEFT")
                  /\ (gesture'.direction = "right")
                        => (gesture'.intent = "MOVE_RIGHT")
          /\ gesture'.dispatched =>
                op'.name = (IF ~isColorMenuOpen THEN "moveFocusDirection"
                            ELSE IF gesture'.direction = "right" THEN "nextColor"
                            ELSE "prevColor")
      ]_vars

\* an upward swipe was discarded while the menu was open
C25_Witness ==
    /\ gesture.layer = "hook"
    /\ gesture.event = "pan"
    /\ gesture.direction = "up"
    /\ gesture.menuWasOpen
    /\ isColorMenuOpen
    /\ gesture.intent = NoIntent
    /\ op.name = "none"

(***************************************************************************)
(* C26 (SpecHook).  A single tap is given the intent INSPECT and leaves    *)
(* canvas, history and the colour state as they are; a double tap is given *)
(* PAINT when the colour menu is closed and COLOR_MENU_CONFIRM when it is  *)
(* open.                                                                   *)
(***************************************************************************)
C26_TapMapping ==
    [][/\ Recognised("tap") =>
             /\ gesture'.intent = "INSPECT"
             /\ UNCHANGED <<canvas, history, selectedColor, isColorMenuOpen,
                            colorMenuIndex, previousColor>>
       /\ Recognised("doubleTap") =>
             gesture'.intent = (IF isColorMenuOpen THEN "COLOR_MENU_CONFIRM"
                                ELSE "PAINT")
      ]_vars

(***************************************************************************)
(* C28 (SpecHook).  An intent handed to processIntent less than 100 ms     *)
(* after the last processed one issues no store command and leaves         *)
(* lastGestureTime as it is; one handed over 100 ms or more after the last *)
(* processed one is dispatched, whatever was suppressed in between, and    *)
(* becomes the new reference.  Two dispatched intents are at least 100 ms  *)
(* apart.                                                                  *)
(***************************************************************************)
C28_Debounce ==
    /\ [][(steps' # steps /\ gesture'.intent # NoIntent) =>
              IF gesture'.now - gesture.lastGestureTime < 100
              THEN /\ ~gesture'.dispatched
                   /\ StoreUntouched
                   /\ gesture'.lastGestureTime = gesture.lastGestureTime
              ELSE /\ gesture'.dispatched
                   /\ op'.name # "none"
                   /\ gesture'.lastGestureTime = gesture'.now
          ]_vars
    /\ [](gesture.dispatchedBefore # NoTime =>
             gesture.dispatchedAt - gesture.dispatchedBefore >= 100)

\* an intent is dispatched 100 ms after the one before it, 50 ms after one
\* that was suppressed
C28_Witness ==
    /\ gesture.layer = "hook"
    /\ gesture.dispatched
    /\ gesture.dispatchedBefore # NoTime
    /\ gesture.dispatchedAt - gesture.dispatchedBefore = 100
    /\ gesture.suppressedAt > gesture.dispatchedBefore
    /\ gesture.dispatchedAt - gesture.suppressedAt = 50

(***************************************************************************)
(* C27 (SpecScreen).  A finger lifted after the 500 ms timer and before    *)
(* the 2000 ms timer has run the colour-menu toggle and no other callback. *)
(* A finger held until the 2000 ms timer has run the context announcement  *)
(* and no other callback: the menu toggle has not run during that hold.    *)
(***************************************************************************)
C27_LongPressExclusive ==
    gesture.layer = "screen" =>
        /\ (~gesture.down /\ gesture.heldFor = LONG_PRESS_MS)
              => gesture.fired = <<"longPress">>
        /\ (gesture.heldFor = CONTEXT_LONG_PRESS_MS)
              => gesture.fired = <<"contextLongPress">>

PositiveInteger(x) == isInteger(x) /\ x > 0
Threw(res) == "threw" \in DOMAIN res

(***************************************************************************)
(* C29 (SpecCreate).  createCanvas given a positive integer width and      *)
(* height returns the canvas with that config, focus (0,0) and no cells;   *)
(* given a width or height that is zero, negative or not an integer it     *)
(* throws.  initializeCanvas given such a width or height throws too and   *)
(* leaves the store's canvas and history as they were; given positive      *)
(* integers it installs the canvas createCanvas returns.                   *)
(***************************************************************************)
C29_CreateOrThrow ==
    [][(steps' # steps /\ op'.name \in {"createCanvas", "initializeCanvas"}) =>
          LET fresh == [config |-> op'.arg, focus |-> Position(0, 0),
                        cells |-> EmptyMap]
              good == PositiveInteger(op'.arg.width)
                         /\ PositiveInteger(op'.arg.height)
          IN  IF op'.name = "createCanvas"
              THEN IF good THEN result' = fresh ELSE Threw(result')
              ELSE IF good THEN ~Threw(result') /\ canvas' = fresh
                   ELSE Threw(result') /\ UNCHANGED <<canvas, history>>
      ]_vars

\* initializeCanvas threw for a fraction and the painted canvas is still there
C29_Witness ==
    /\ op.name = "initializeCanvas"
    /\ ~isInteger(op.arg.width)
    /\ op.arg.width = Fraction(1)
    /\ Threw(result)
    /\ Len(canvas.cells) > 0
    /\ Len(history.undoStack) > 0

\* what a Map object of cells holds, read through the heap
cellsContent(hp, cells) ==
    [i \in 1..Len(hp[cells].value) |->
        [key |-> hp[cells].value[i].key,
         value |-> hp[hp[cells].value[i].value].value]]

\* the focus and the cells of a snapshot or of a canvas, read through the heap
Content(hp, holder) ==
    [focus |-> hp[holder.focus].value, cells |-> cellsContent(hp, holder.cells)]

\* the mutable objects reachable from a snapshot or from a canvas
Objects(hp, holder) ==
    {holder.focus, holder.cells}
        \cup {hp[holder.cells].value[i].value : i \in 1..Len(hp[holder.cells].value)}

\* the last step restored the canvas from the snapshot op.arg
Restored ==
    \/ op.name = "restoreFromSnapshot"
    \/ op.name \in {"undo", "redo"} /\ result.success

(***************************************************************************)
(* C30 (SpecAlias).  Snapshots are never changed after creation: no paint, *)
(* erase, clear, move, push, undo, redo or restore changes the focus or    *)
(* the cells of a snapshot held in undoStack or redoStack.  A canvas       *)
(* restored from a snapshot holds the snapshot's focus and cells in        *)
(* objects of its own: it shares no position, Map or cell object with the  *)
(* snapshot.  Restoring a held snapshot, painting the restored canvas and  *)
(* restoring the same snapshot again gives a canvas equal to the first.    *)
(***************************************************************************)
C30_SnapshotsImmutable ==
    /\ [][\A snapshot \in HeldSnapshots(history) :
              Content(heap', snapshot) = Content(heap, snapshot)]_vars
    /\ [](Restored =>
              /\ Objects(heap, canvas) \cap Objects(heap, op.arg) = {}
              /\ Content(heap, canvas) = Content(heap, op.arg))
    /\ [](\A snapshot \in HeldSnapshots(history), color \in AliasColorInputs :
              LET first == restoreFromSnapshotRef(heap, canvas, snapshot)
                  painted == paintCellRef(first.heap, first.canvas, color)
                  second == restoreFromSnapshotRef(painted.heap, painted.canvas,
                                                   snapshot)
              IN  /\ Content(second.heap, second.canvas)
                         = Content(first.heap, first.canvas)
                  /\ second.canvas.config = first.canvas.config)

\* an undo restored a painted snapshot, after the live canvas had been painted
\* differently, and the snapshot of that canvas is held for redo
C30_Witness ==
    /\ op.name = "undo"
    /\ result.success
    /\ Len(heap[op.arg.cells].value) > 0
    /\ Len(history.redoStack) > 0
    /\ Content(heap, history.redoStack[Len(history.redoStack)]).cells
           # Content(heap, op.arg).cells

(***************************************************************************)
(* C31 (Spec).  clearCanvas empties the cell mapping and keeps focus and   *)
(* config; a performUndo issued right after it succeeds and restores the   *)
(* cells and the focus the canvas held before the clear.                   *)
(***************************************************************************)
C31_ClearUndoable ==
    /\ [][Called("clearCanvas") =>
              /\ canvas'.cells = EmptyMap
              /\ canvas'.focus = canvas.focus
              /\ canvas'.config = canvas.config]_vars
    /\ []((op.name = "performUndo" /\ cleared.active) =>
              /\ result.success
              /\ canvas.cells = cleared.canvas.cells
              /\ canvas.focus = cleared.canvas.focus
              /\ canvas.config = cleared.canvas.config)

\* a painted canvas was cleared and the clear undone
C31_Witness ==
    /\ op.name = "performUndo"
    /\ cleared.active
    /\ Len(cleared.canvas.cells) > 0
    /\ Len(canvas.cells) > 0

FocusCommands == {"moveFocusDirection", "setFocusPosition", "moveFocusHome",
                  "performUndo", "performRedo", "eraseFocusedCell",
                  "clearCanvas"}

(***************************************************************************)
(* C32 (Spec).  While the colour menu stays open, that is between a        *)
(* successful openColorMenu and the confirmColor or closeColorMenu that    *)
(* follows, no moveFocusDirection, setFocusPosition, moveFocusHome,        *)
(* performUndo, performRedo, eraseFocusedCell or clearCanvas changes       *)
(* canvas.focus.                                                           *)
(***************************************************************************)
C32_FocusFrozenWhileOpen ==
    [][(isColorMenuOpen /\ steps' # steps /\ op'.name \in FocusCommands) =>
          canvas'.focus = canvas.focus]_vars

(***************************************************************************)
(* C33 (SpecLoadGrid).  A canvas loadCanvas returns with success=true      *)
(* satisfies the grid invariants: its focus and every cell lie inside its  *)
(* width x height, every cell is stored under the key of its coordinates   *)
(* and every colour is valid.                                              *)
(***************************************************************************)
C33_LoadedInsideGrid ==
    (op.name = "loadCanvas" /\ result.success) =>
        LET loaded == result.canvas
        IN  /\ InGrid(loaded.focus.row, loaded.focus.col, loaded.config)
            /\ \A i \in 1..Len(loaded.cells) :
                  LET cell == loaded.cells[i].value
                  IN  /\ InGrid(cell.row, cell.col, loaded.config)
                      /\ loaded.cells[i].key = KeyOf(cell.row, cell.col)
                      /\ isValidColor(cell.color)

\* the last step was a load that replaced the store canvas
Loaded == op.name = "loadCanvasById" /\ result.success

(***************************************************************************)
(* C34 (SpecDocument).  After a document load replaced the store canvas,   *)
(* the next performUndo or performRedo returns success=false and leaves    *)
(* the loaded canvas as it is.                                             *)
(***************************************************************************)
C34_LoadDiscardsHistory ==
    [][(Loaded /\ steps' # steps /\ op'.name \in {"performUndo", "performRedo"})
          => (~result'.success /\ canvas' = canvas)]_vars

(***************************************************************************)
(* C35 (SpecDocument).  In every store state, after initializeCanvas and   *)
(* after a document load too, canUndo is true exactly when undoStack is    *)
(* non-empty and canRedo exactly when redoStack is non-empty.              *)
(***************************************************************************)
C35_FlagsMatchStacks ==
    /\ canUndo = (Len(history.undoStack) > 0)
    /\ canRedo = (Len(history.redoStack) > 0)

(***************************************************************************)
(* C36 (SpecFull).  In every state reached through the store commands      *)
(* undoStack.length + redoStack.length <= maxHistorySize, and a successful *)
(* performRedo puts one snapshot on top of the undo stack without evicting *)
(* any: the snapshots that were on the undo stack are all still there, in  *)
(* their places.                                                           *)
(***************************************************************************)
C36_StacksWithinMax ==
    /\ [](Len(history.undoStack) + Len(history.redoStack)
              <= history.maxHistorySize)
    /\ [][(Called("performRedo") /\ result'.success) =>
              /\ Len(history'.undoStack) = Len(history.undoStack) + 1
              /\ SubSeq(history'.undoStack, 1, Len(history.undoStack))
                     = history.undoStack
              /\ Len(history'.redoStack) = Len(history.redoStack) - 1]_vars

\* a redo filled the undo stack to the maximum
C36_Witness ==
    /\ op.name = "performRedo"
    /\ result.success
    /\ Len(history.undoStack) = history.maxHistorySize
    /\ history.maxHistorySize = DEFAULT_MAX_HISTORY_SIZE

(***************************************************************************)
(* C37 (Spec).  The store's derived focusPosition equals canvas.focus in   *)
(* every reachable state, after any sequence of initializeCanvas, moves,   *)
(* setFocusPosition, moveFocusHome, paint, erase, clear, undo and redo.    *)
(***************************************************************************)
C37_FocusPositionDerived ==
    focusPosition = canvas.focus

\* an undo brought the focus back from home to where the cell was painted
C37_Witness ==
    /\ op.name = "performUndo"
    /\ result.success
    /\ canvas.focus # Position(0, 0)
    /\ focusPosition = canvas.focus

(***************************************************************************)
(* C38 (SpecMenu).  Whenever the colour menu is open, selectedColor is the *)
(* palette entry at colorMenuIndex, right after openColorMenu too; so the  *)
(* colour openColorMenu reports (that entry) is the colour an immediate    *)
(* confirmColor commits (selectedColor).                                   *)
(***************************************************************************)
C38_OpenShowsSelected ==
    isColorMenuOpen => selectedColor = colorAt(colorMenuIndex)

MoveCommands == {"moveFocusDirection", "setFocusPosition", "moveFocusHome"}

(***************************************************************************)
(* C39 (Spec).  Focus movement is not part of history: a step of           *)
(* moveFocusDirection, setFocusPosition or moveFocusHome, successful or    *)
(* not, leaves cells, undoStack and redoStack (and so canRedo) unchanged;  *)
(* a move made after performUndo leaves the redo available.                *)
(***************************************************************************)
C39_MovesOutsideHistory ==
    [][(steps' # steps /\ op'.name \in MoveCommands) =>
          /\ canvas'.cells = canvas.cells
          /\ history' = history
          /\ canRedo' = canRedo
          /\ canUndo' = canUndo]_vars

\* the focus moved after an undo and the undone edit can still be redone
C39_Witness ==
    /\ op.name \in MoveCommands
    /\ result.success
    /\ redoTrack = "undone"
    /\ Len(history.redoStack) > 0
    /\ canRedo

====
